---- MODULE Spec2Model ----
(***************************************************************************)
(* Group-moderation bot (uztm/botv2): the message-admission pipeline       *)
(* (handlers.py, BotHandlers._process_group_message), the membership       *)
(* verifier (BotHandlers.check_user_in_chat_by_username), the pure text    *)
(* analysers (utils.py, MessageAnalyzer) and the membership / settings     *)
(* store (database.py, Database).                                          *)
(*                                                                         *)
(* Texts are TLA+ strings; a character is a string of length 1.  The       *)
(* module language admits ASCII only, so ASCII characters stand for the    *)
(* non-ASCII code points the analysers distinguish: EmojiCh for an emoji   *)
(* (ord > 127, not a word character), IntlCh for a non-ASCII letter        *)
(* without case (ord > 127, alphabetic, a word character), DottedI and     *)
(* BoldCap for the capital letters that str.lower() lengthens or leaves.   *)
(***************************************************************************)
EXTENDS Integers, Sequences, FiniteSets, TLC

None == "None"

(***************************************************************************)
(* Characters and Python str primitives                                    *)
(***************************************************************************)
LowerSeq == "abcdefghijklmnopqrstuvwxyz"
UpperSeq == "ABCDEFGHIJKLMNOPQRSTUVWXYZ"
DigitSeq == "0123456789"

Ch(s, i) == SubSeq(s, i, i)

CharsOf(s) == {Ch(s, i) : i \in 1..Len(s)}

LowerLetters == CharsOf(LowerSeq)
UpperLetters == CharsOf(UpperSeq)
Digits == CharsOf(DigitSeq)
EmojiCh == "~"
IntlCh == "^"
\* U+0130, the capital letter whose str.lower() is two characters: i and the
\* combining dot above U+0307 (ord > 127, no letter, no word character: of the
\* class EmojiCh stands for)
DottedI == "#"
\* a capital letter that str.lower() leaves as it is (U+1D400, mathematical bold A)
BoldCap == "|"
NonAscii == {EmojiCh, IntlCh, DottedI, BoldCap}
\* str.isupper() on one character
Upper == UpperLetters \cup {DottedI, BoldCap}
Alpha == LowerLetters \cup UpperLetters \cup {IntlCh, DottedI, BoldCap}
Alnum == Alpha \cup Digits
AsciiLetters == LowerLetters \cup UpperLetters
AsciiAlnum == AsciiLetters \cup Digits
WordChars == Alnum \cup {"_"}
Space == {" ", "\n", "\t"}

\* str.lower() on one character
LowerCh(c) ==
    IF c \in UpperLetters
    THEN Ch(LowerSeq, CHOOSE i \in 1..Len(UpperSeq) : Ch(UpperSeq, i) = c)
    ELSE IF c = DottedI THEN "i" \o EmojiCh
    ELSE c

RECURSIVE Lower(_)
\* str.lower(): every character lowered, the text taken in halves
Lower(s) ==
    IF Len(s) = 0 THEN ""
    ELSE IF Len(s) = 1 THEN LowerCh(s)
    ELSE Lower(SubSeq(s, 1, Len(s) \div 2)) \o Lower(SubSeq(s, Len(s) \div 2 + 1, Len(s)))

RECURSIVE LStrip(_, _)
\* str.lstrip(chars)
LStrip(s, chars) ==
    IF Len(s) > 0 /\ Ch(s, 1) \in chars THEN LStrip(SubSeq(s, 2, Len(s)), chars) ELSE s

RECURSIVE RStrip(_, _)
RStrip(s, chars) ==
    IF Len(s) > 0 /\ Ch(s, Len(s)) \in chars THEN RStrip(SubSeq(s, 1, Len(s) - 1), chars) ELSE s

\* str.strip()
Strip(s) == RStrip(LStrip(s, Space), Space)

\* Python "sub in s"
Contains(s, sub) ==
    \E i \in 1..(Len(s) - Len(sub) + 1) : SubSeq(s, i, i + Len(sub) - 1) = sub

\* Python truthiness of an Optional[str]
Truthy(s) == s # None /\ Len(s) > 0

SetMax(S) == CHOOSE x \in S : \A y \in S : y <= x

(***************************************************************************)
(* A regular-expression matcher for the patterns of utils.py: a pattern is *)
(* a sequence of items, an item is a character class repeated lo..hi       *)
(* times; Ends is the set of positions at which a match begun at a         *)
(* position of S can end (the position after its last character).          *)
(***************************************************************************)
It(cls, lo, hi) == [cls |-> cls, lo |-> lo, hi |-> hi]

LitItems(s) == [k \in 1..Len(s) |-> It({Ch(s, k)}, 1, 1)]

RECURSIVE MaxRun(_, _, _, _)
\* the number of consecutive characters of cls from position p on, at most hi
MaxRun(text, p, cls, hi) ==
    IF hi = 0 \/ p > Len(text) \/ Ch(text, p) \notin cls THEN 0
    ELSE 1 + MaxRun(text, p + 1, cls, hi - 1)

RunEnds(text, p, it) == {p + n : n \in it.lo..MaxRun(text, p, it.cls, it.hi)}

RECURSIVE Ends(_, _, _)
Ends(text, S, items) ==
    IF Len(items) = 0 THEN S
    ELSE Ends(text, UNION {RunEnds(text, p, Head(items)) : p \in S}, Tail(items))

\* \b at position p (between characters p-1 and p)
IsWordAt(text, p) == p >= 1 /\ p <= Len(text) /\ Ch(text, p) \in WordChars
Boundary(text, p) == IsWordAt(text, p - 1) # IsWordAt(text, p)

(***************************************************************************)
(* handlers.py: BotHandlers.is_valid_telegram_username                     *)
(***************************************************************************)
UsernameMinLen == 5
UsernameMaxLen == 32

\* is_valid_telegram_username without the test of the last character
is_valid_telegram_username_AnyEnd(username0) ==
    IF ~Truthy(username0) THEN FALSE
    ELSE LET username == LStrip(username0, {"@"})
         IN  IF Len(username) < UsernameMinLen \/ Len(username) > UsernameMaxLen THEN FALSE
             ELSE IF Ch(username, 1) \notin Alpha THEN FALSE
             ELSE IF ~(\A i \in 1..Len(username) : Ch(username, i) \in Alnum \cup {"_"}) THEN FALSE
             ELSE IF Contains(username, "__") THEN FALSE
             ELSE TRUE

is_valid_telegram_username(username0) ==
    IF ~Truthy(username0) THEN FALSE
    ELSE LET username == LStrip(username0, {"@"})
         IN  IF Len(username) < UsernameMinLen \/ Len(username) > UsernameMaxLen THEN FALSE
             ELSE IF Ch(username, 1) \notin Alpha THEN FALSE
             ELSE IF Ch(username, Len(username)) \notin Alnum THEN FALSE
             ELSE IF ~(\A i \in 1..Len(username) : Ch(username, i) \in Alnum \cup {"_"}) THEN FALSE
             ELSE IF Contains(username, "__") THEN FALSE
             ELSE TRUE

(***************************************************************************)
(* Message content.  A content is a record                                 *)
(*   [text, caption : string or None,                                      *)
(*    entities, caption_entities : sequence of [type, offset, length]]     *)
(* with the platform's 0-based entity offsets.                             *)
(***************************************************************************)
Entity(type, offset, length) == [type |-> type, offset |-> offset, length |-> length]

Content(text, caption, entities, caption_entities) ==
    [text |-> text, caption |-> caption,
     entities |-> entities, caption_entities |-> caption_entities]

\* message.text or message.caption or ""
TextOrCaption(message) ==
    IF Truthy(message.text) THEN message.text
    ELSE IF Truthy(message.caption) THEN message.caption
    ELSE ""

\* Python slice text[a:b] for 0 <= a (0-based, clamped to the text)
Slice(text, a, b) ==
    LET hi == IF b > Len(text) THEN Len(text) ELSE b
    IN  IF a >= hi THEN "" ELSE SubSeq(text, a + 1, hi)

InSeq(x, seq) == \E i \in 1..Len(seq) : seq[i] = x

AppendNew(seq, x) == IF InSeq(x, seq) THEN seq ELSE Append(seq, x)

(***************************************************************************)
(* utils.py: MessageAnalyzer.extract_mentions                              *)
(***************************************************************************)
MentionMinLen == 3

\* '@([a-zA-Z][a-zA-Z0-9_]{2,31})': the ends of a match begun at the @ of position i
MentionEnds(text, i) ==
    Ends(text, {i}, <<It({"@"}, 1, 1), It(AsciiLetters, 1, 1),
                      It(AsciiAlnum \cup {"_"}, 2, 31)>>)

\* first pattern: the match must be followed by (?=\s|$|[^\w])
MentionEnds1(text, i) ==
    {e \in MentionEnds(text, i) :
        \/ e > Len(text)
        \/ Ch(text, e) \in Space
        \/ (e = Len(text) /\ Ch(text, e) = "\n")
        \/ Ch(text, e) \notin WordChars}

\* second pattern: the @ must satisfy (?<!\w)
MentionEnds2(text, i) ==
    IF i > 1 /\ Ch(text, i - 1) \in WordChars THEN {} ELSE MentionEnds(text, i)

RECURSIVE FindAllMentions(_, _, _, _)
\* re.findall of pattern number pat, scanning from position i, each capture
\* lowercased and appended to acc unless already there
FindAllMentions(text, pat, i, acc) ==
    IF i > Len(text) THEN acc
    ELSE LET E == IF pat = 1 THEN MentionEnds1(text, i) ELSE MentionEnds2(text, i)
         IN  IF E = {} THEN FindAllMentions(text, pat, i + 1, acc)
             ELSE LET e == SetMax(E)
                  IN  FindAllMentions(text, pat, e,
                                      AppendNew(acc, Lower(SubSeq(text, i + 1, e - 1))))

RECURSIVE EntityMentions_KeepsCase(_, _, _, _)
\* EntityMentions keeping the handle as it is written in the text
EntityMentions_KeepsCase(text, ents, k, acc) ==
    IF k > Len(ents) THEN acc
    ELSE LET entity == ents[k]
             mention == Slice(text, entity.offset, entity.offset + entity.length)
             username == LStrip(mention, {"@"})
         IN  IF entity.type = "mention" /\ Len(username) >= MentionMinLen
             THEN EntityMentions_KeepsCase(text, ents, k + 1, AppendNew(acc, username))
             ELSE EntityMentions_KeepsCase(text, ents, k + 1, acc)

RECURSIVE EntityMentions(_, _, _, _)
\* Method 1: the 'mention' entities
EntityMentions(text, ents, k, acc) ==
    IF k > Len(ents) THEN acc
    ELSE LET entity == ents[k]
             mention == Slice(text, entity.offset, entity.offset + entity.length)
             username == Lower(LStrip(mention, {"@"}))
         IN  IF entity.type = "mention" /\ Len(username) >= MentionMinLen
             THEN EntityMentions(text, ents, k + 1, AppendNew(acc, username))
             ELSE EntityMentions(text, ents, k + 1, acc)

\* re.match(r'^[a-zA-Z][a-zA-Z0-9_]*$', s); $ also matches before a final newline
MatchesHandleShape(s) ==
    LET body == IF Len(s) > 0 /\ Ch(s, Len(s)) = "\n" THEN SubSeq(s, 1, Len(s) - 1) ELSE s
    IN  /\ Len(body) >= 1
        /\ Ch(body, 1) \in AsciiLetters
        /\ \A i \in 1..Len(body) : Ch(body, i) \in AsciiAlnum \cup {"_"}

RECURSIVE ValidateMentions(_, _, _)
\* Method 3: cleanup and validation
ValidateMentions(mentions, k, acc) ==
    IF k > Len(mentions) THEN acc
    ELSE LET clean_mention == Lower(Strip(mentions[k]))
         IN  IF Len(clean_mention) < MentionMinLen THEN ValidateMentions(mentions, k + 1, acc)
             ELSE IF ~MatchesHandleShape(clean_mention) THEN ValidateMentions(mentions, k + 1, acc)
             ELSE IF Len(clean_mention) > UsernameMaxLen THEN ValidateMentions(mentions, k + 1, acc)
             ELSE ValidateMentions(mentions, k + 1, Append(acc, clean_mention))

extract_mentions(message) ==
    LET text == TextOrCaption(message)
        m1 == EntityMentions(text, message.entities \o message.caption_entities, 1, <<>>)
        m2 == FindAllMentions(text, 1, 1, m1)
        m3 == FindAllMentions(text, 2, 1, m2)
    IN  ValidateMentions(m3, 1, <<>>)

(***************************************************************************)
(* utils.py: MessageAnalyzer.has_links                                     *)
(***************************************************************************)
Many == 4096

\* [a-zA-Z]|[0-9]|[$-_@.&+]|[!*\\(\\),]|(?:%[0-9a-fA-F][0-9a-fA-F]): the range
\* $-_ is ASCII 0x24..0x5F (its member 0x5E is IntlCh in this model and so left out)
UrlChars == AsciiAlnum \cup CharsOf("$%&'()*+,-./:;<=>?@[\\]_!")

TldList == {"com", "org", "net", "edu", "gov", "mil", "int", "co", "uz", "ru", "de",
            "fr", "uk", "it", "es", "au", "jp", "cn", "in", "br"}

SocialHosts == {"instagram.com", "facebook.com", "twitter.com", "youtube.com", "tiktok.com"}

ShortHosts == {"bit.ly", "tinyurl.com", "short.link", "s.id"}

false_positives ==
    {"vs.", "etc.", "inc.", "ltd.", "co.", "mr.", "mrs.", "dr.", "prof.",
     "jan.", "feb.", "mar.", "apr.", "may.", "jun.", "jul.", "aug.", "sep.", "oct.",
     "nov.", "dec.", "mon.", "tue.", "wed.", "thu.", "fri.", "sat.", "sun."}

Starts(text) == 1..Len(text)

\* r'https?://(?:...)+'
UrlSchemeMatch(t) ==
    \E i \in Starts(t) :
        Ends(t, {i}, LitItems("http") \o <<It({"s"}, 0, 1)>> \o LitItems("://")
                     \o <<It(UrlChars, 1, Many)>>) # {}

\* r'\b[a-zA-Z0-9][a-zA-Z0-9-]*[a-zA-Z0-9]*\.(?:com|org|...)\b'
TldDomainMatch(t) ==
    \E i \in Starts(t) : \E tld \in TldList :
        /\ Boundary(t, i)
        /\ \E e \in Ends(t, {i}, <<It(AsciiAlnum, 1, 1), It(AsciiAlnum \cup {"-"}, 0, Many),
                                   It(AsciiAlnum, 0, Many), It({"."}, 1, 1)>>
                                 \o LitItems(tld)) : Boundary(t, e)

\* r't\.me/[a-zA-Z0-9_]+' and r'telegram\.me/[a-zA-Z0-9_]+'
TelegramLinkMatch(t) ==
    \E i \in Starts(t) : \E host \in {"t.me", "telegram.me"} :
        Ends(t, {i}, LitItems(host) \o <<It({"/"}, 1, 1), It(AsciiAlnum \cup {"_"}, 1, Many)>>) # {}

\* r'(?:instagram\.com|...)/[a-zA-Z0-9_.]+'
SocialMatch(t) ==
    \E i \in Starts(t) : \E host \in SocialHosts :
        Ends(t, {i}, LitItems(host) \o <<It({"/"}, 1, 1), It(AsciiAlnum \cup {"_", "."}, 1, Many)>>) # {}

\* r'\b(?:bit\.ly|tinyurl\.com|short\.link|s\.id)/[a-zA-Z0-9]+'
ShortUrlMatch(t) ==
    \E i \in Starts(t) : \E host \in ShortHosts :
        /\ Boundary(t, i)
        /\ Ends(t, {i}, LitItems(host) \o <<It({"/"}, 1, 1), It(AsciiAlnum, 1, Many)>>) # {}

\* the url_patterns loop, re.search(pattern, text, re.IGNORECASE)
UrlPatternMatch(text) ==
    LET t == Lower(text)
    IN  \/ UrlSchemeMatch(t)
        \/ TldDomainMatch(t)
        \/ TelegramLinkMatch(t)
        \/ SocialMatch(t)
        \/ ShortUrlMatch(t)

\* r'\b[a-zA-Z0-9-]+\.[a-zA-Z]{2,}\b' begun at i: the end of the match the greedy
\* quantifiers choose, 0 if there is none
DomainEndAt(text, i) ==
    IF ~Boundary(text, i) THEN 0
    ELSE LET tails(p) == {e \in Ends(text, {p}, <<It({"."}, 1, 1), It(AsciiLetters, 2, Many)>>) :
                              Boundary(text, e)}
             P == {p \in RunEnds(text, i, It(AsciiAlnum \cup {"-"}, 1, Many)) : tails(p) # {}}
         IN  IF P = {} THEN 0 ELSE SetMax(tails(SetMax(P)))

RECURSIVE potential_domains(_, _)
\* re.findall(domain_pattern, text), scanning from position i
potential_domains(text, i) ==
    IF i > Len(text) THEN <<>>
    ELSE LET e == DomainEndAt(text, i)
         IN  IF e = 0 THEN potential_domains(text, i + 1)
             ELSE <<SubSeq(text, i, e - 1)>> \o potential_domains(text, e)

HasLinkEntity(ents) ==
    \E k \in 1..Len(ents) : ents[k].type \in {"url", "text_link"}

has_links(message) ==
    IF ~Truthy(message.text) /\ ~Truthy(message.caption) THEN FALSE
    ELSE LET text == IF Truthy(message.text) THEN message.text ELSE message.caption
             domains == potential_domains(text, 1)
         IN  IF HasLinkEntity(message.entities) THEN TRUE
             ELSE IF HasLinkEntity(message.caption_entities) THEN TRUE
             ELSE IF UrlPatternMatch(text) THEN TRUE
             ELSE \E k \in 1..Len(domains) : Lower(domains[k]) \notin false_positives

(***************************************************************************)
(* utils.py: MessageAnalyzer.is_potential_ad                               *)
(* The keyword lists keep the entries writable in this model's alphabet;   *)
(* the Cyrillic entries need letters no modelled text contains.            *)
(***************************************************************************)
AdMinLen == 20
AdThreshold == 3
StrongWeight == 2
EmojiMinLen == 50
CapsMinLen == 30
CapsMinLetters == 10
RepeatMinLen == 100
RepeatMinWords == 8
RepeatMinPhrase == 10

strong_ad_keywords ==
    <<"buy now", "click here", "limited time", "special offer", "act now",
      "earn money online", "work from home", "make money fast", "business opportunity",
      "get rich", "investment opportunity", "guaranteed profit", "no risk money",
      "free money", "easy money", "passive income", "financial freedom",
      "hozir xarid qiling", "oson pul", "kafolatlangan foyda", "biznes imkoniyati",
      "uyda ishlash", "tez daromad", "pul topish",
      "bitcoin", "cryptocurrency", "forex", "trading signals", "mlm", "pyramid",
      "referral program", "affiliate marketing", "network marketing">>

medium_ad_keywords ==
    <<"discount", "sale", "promo", "offer", "deal", "cheap", "free",
      "chegirma", "aksiya", "arzon", "bepul">>

\* the number of keywords of the list that occur in the text
KeywordCount(keywords, text) ==
    Cardinality({k \in 1..Len(keywords) : Contains(text, keywords[k])})

CountIn(text, cls) == Cardinality({i \in 1..Len(text) : Ch(text, i) \in cls})

PhoneSep == {"-", "."} \cup Space

\* r'\+?\d{1,3}[-.\s]?\(?\d{1,4}\)?[-.\s]?\d{1,4}[-.\s]?\d{1,9}'
PhonePattern1 ==
    <<It({"+"}, 0, 1), It(Digits, 1, 3), It(PhoneSep, 0, 1), It({"("}, 0, 1),
      It(Digits, 1, 4), It({")"}, 0, 1), It(PhoneSep, 0, 1), It(Digits, 1, 4),
      It(PhoneSep, 0, 1), It(Digits, 1, 9)>>

\* r'\d{3,4}[-.\s]?\d{2,3}[-.\s]?\d{2,3}[-.\s]?\d{2,3}'
PhonePattern2 ==
    <<It(Digits, 3, 4), It(PhoneSep, 0, 1), It(Digits, 2, 3), It(PhoneSep, 0, 1),
      It(Digits, 2, 3), It(PhoneSep, 0, 1), It(Digits, 2, 3)>>

has_phone(text) ==
    \E pattern \in {PhonePattern1, PhonePattern2} :
        \E i \in Starts(text) : Ends(text, {i}, pattern) # {}

\* str.split(): the maximal runs of non-whitespace characters, in their order
Split(text) ==
    LET starts == {i \in 1..Len(text) :
                      Ch(text, i) \notin Space /\ (i = 1 \/ Ch(text, i - 1) \in Space)}
        start(k) == CHOOSE p \in starts : Cardinality({q \in starts : q < p}) = k - 1
        stops(p) == {j \in p..Len(text) : j = Len(text) \/ Ch(text, j + 1) \in Space}
        stop(p) == CHOOSE j \in stops(p) : \A l \in stops(p) : j <= l
    IN  [k \in 1..Cardinality(starts) |-> SubSeq(text, start(k), stop(start(k)))]

RECURSIVE Join(_, _)
\* sep.join(words)
Join(sep, words) ==
    IF Len(words) = 0 THEN ""
    ELSE IF Len(words) = 1 THEN words[1]
    ELSE words[1] \o sep \o Join(sep, Tail(words))

\* the repeated-phrase loop: some 3-word phrase recurs in the words after it
has_repetition(text) ==
    LET words == Split(text)
    IN  /\ Len(words) >= RepeatMinWords
        /\ \E i \in 0..(Len(words) - 6) :
              LET phrase == Join(" ", SubSeq(words, i + 1, i + 3))
                  remaining_text == Join(" ", SubSeq(words, i + 4, Len(words)))
              IN  Contains(remaining_text, phrase) /\ Len(phrase) > RepeatMinPhrase

\* text = (message.text or message.caption or "").lower().strip()
AdText(message) == Strip(Lower(TextOrCaption(message)))

\* StrongScore adding its weight once, however many phrases occur
StrongScore_Once(text) ==
    IF KeywordCount(strong_ad_keywords, text) > 0 THEN StrongWeight ELSE 0

StrongScore(text) == StrongWeight * KeywordCount(strong_ad_keywords, text)

\* MediumScore adding one for every term beyond the first
MediumScore_PerTerm(text) ==
    IF KeywordCount(medium_ad_keywords, text) >= 2
    THEN KeywordCount(medium_ad_keywords, text) - 1 ELSE 0

MediumScore(text) == IF KeywordCount(medium_ad_keywords, text) >= 2 THEN 1 ELSE 0

\* emoji_count / len(text) > 0.3
EmojiScore(text) ==
    IF Len(text) > EmojiMinLen /\ 10 * CountIn(text, NonAscii) > 3 * Len(text) THEN 1 ELSE 0

\* caps_count / len(letters) > 0.8, counted on the lowercased text
CapsScore(text) ==
    IF /\ Len(text) > CapsMinLen
       /\ CountIn(text, Alpha) > CapsMinLetters
       /\ 10 * CountIn(text, Upper) > 8 * CountIn(text, Alpha)
    THEN 1 ELSE 0

RepeatScore(text) == IF Len(text) > RepeatMinLen /\ has_repetition(text) THEN 1 ELSE 0

\* ad_score with the phone test made after the repeated-phrase loop
ad_score_PhoneLast(message) ==
    IF ~Truthy(message.text) /\ ~Truthy(message.caption) THEN 0
    ELSE LET text == AdText(message)
         IN  IF Len(text) < AdMinLen THEN 0
             ELSE LET s4 == StrongScore(text) + MediumScore(text) + EmojiScore(text)
                            + CapsScore(text) + RepeatScore(text)
                  IN  IF has_phone(text) /\ s4 > 0 THEN s4 + 1 ELSE s4

\* the value of ad_score when is_potential_ad returns
ad_score(message) ==
    IF ~Truthy(message.text) /\ ~Truthy(message.caption) THEN 0
    ELSE LET text == AdText(message)
         IN  IF Len(text) < AdMinLen THEN 0
             ELSE LET s4 == StrongScore(text) + MediumScore(text) + EmojiScore(text)
                            + CapsScore(text)
                      s5 == IF has_phone(text) /\ s4 > 0 THEN s4 + 1 ELSE s4
                  IN  s5 + RepeatScore(text)

is_potential_ad(message) == ad_score(message) >= AdThreshold

(***************************************************************************)
(* utils.py: MessageAnalyzer.is_potential_ad_debug.  Its keyword lists,    *)
(* emoji string and phone patterns are, entry by entry, those of           *)
(* is_potential_ad.  The reason string is kept as debug_reasons, the list  *)
(* it is joined from, each entry with what the code formats into it.       *)
(***************************************************************************)
\* Found stopping at the first keyword the text contains
Found_First(keywords, text) ==
    LET found == SelectSeq(keywords, LAMBDA keyword : Contains(text, keyword))
    IN  IF Len(found) > 1 THEN <<Head(found)>> ELSE found

\* [keyword for keyword in keywords if keyword in text]
Found(keywords, text) == SelectSeq(keywords, LAMBDA keyword : Contains(text, keyword))

\* the phrase at which the repeated-phrase loop breaks, None when it runs out
RepeatedPhrase(text) ==
    LET words == Split(text)
        phrase(i) == Join(" ", SubSeq(words, i + 1, i + 3))
        hit(i) == /\ Contains(Join(" ", SubSeq(words, i + 4, Len(words))), phrase(i))
                  /\ Len(phrase(i)) > RepeatMinPhrase
        hits == {i \in 0..(Len(words) - 6) : hit(i)}
    IN  IF Len(words) >= RepeatMinWords /\ hits # {}
        THEN phrase(CHOOSE i \in hits : \A j \in hits : i <= j)
        ELSE None

\* an entry of debug_reasons: its label and the keywords or the phrase formatted
\* into it
Reason(kind, found) == [kind |-> kind, found |-> found]

\* stands for "; ".join(debug_reasons)
JoinedReasons == "; "

DebugResult(is_ad, reason, debug_reasons, score) ==
    [is_ad |-> is_ad, reason |-> reason, debug_reasons |-> debug_reasons, ad_score |-> score]

is_potential_ad_debug(message) ==
    IF ~Truthy(message.text) /\ ~Truthy(message.caption)
    THEN DebugResult(FALSE, "No text content", <<>>, 0)
    ELSE LET text == Strip(Lower(TextOrCaption(message)))
         IN  IF Len(text) < AdMinLen THEN DebugResult(FALSE, "Too short", <<>>, 0)
             ELSE
             LET found_strong == Found(strong_ad_keywords, text)
                 s1 == StrongWeight * Len(found_strong)
                 r1 == IF Len(found_strong) > 0
                       THEN <<Reason("Strong ad keywords", found_strong)>>
                       ELSE <<>>
                 found_medium == Found(medium_ad_keywords, text)
                 medium == Len(found_medium) >= 2
                 s2 == IF medium THEN s1 + 1 ELSE s1
                 r2 == IF medium
                       THEN Append(r1, Reason("Multiple medium keywords", found_medium))
                       ELSE r1
                 emoji == /\ Len(text) > EmojiMinLen
                          /\ 10 * CountIn(text, NonAscii) > 3 * Len(text)
                 s3 == IF emoji THEN s2 + 1 ELSE s2
                 r3 == IF emoji THEN Append(r2, Reason("High emoji ratio", <<>>)) ELSE r2
                 caps == /\ Len(text) > CapsMinLen
                         /\ CountIn(text, Alpha) > CapsMinLetters
                         /\ 10 * CountIn(text, Upper) > 8 * CountIn(text, Alpha)
                 s4 == IF caps THEN s3 + 1 ELSE s3
                 r4 == IF caps THEN Append(r3, Reason("High caps ratio", <<>>)) ELSE r3
                 phone == has_phone(text) /\ s4 > 0
                 s5 == IF phone THEN s4 + 1 ELSE s4
                 r5 == IF phone
                       THEN Append(r4, Reason("Phone number + commercial content", <<>>))
                       ELSE r4
                 phrase == IF Len(text) > RepeatMinLen THEN RepeatedPhrase(text) ELSE None
                 s6 == IF phrase # None THEN s5 + 1 ELSE s5
                 r6 == IF phrase # None
                       THEN Append(r5, Reason("Repetitive pattern", <<phrase>>))
                       ELSE r5
             IN  DebugResult(s6 >= AdThreshold,
                             IF Len(r6) > 0 THEN JoinedReasons ELSE "No ad indicators found",
                             r6, s6)

(***************************************************************************)
(* The platform: chats, users and the answers of the Bot API               *)
(***************************************************************************)
Chats == {"g1"}

UserIds == {"u1", "u2", "u3"}

\* user.username, user.first_name, user.last_name of the platform's users
username_of == [u1 |-> "Alice", u2 |-> None, u3 |-> "Evan"]
first_name_of == [u1 |-> "Alice", u2 |-> "Bek", u3 |-> "Evan"]
last_name_of == [u1 |-> None, u2 |-> "Aliyev", u3 |-> None]

Statuses == {"creator", "administrator", "member", "restricted", "left", "kicked"}

\* the statuses with which a user can post in a group
SenderStatuses == {"creator", "administrator", "member"}

\* what an API call can raise: two TelegramBadRequest texts and a transport error
ErrNotFound == "Telegram server says - Bad Request: user not found"
ErrChatNotFound == "Telegram server says - Bad Request: chat not found"
ErrTimeout == "HTTP Client says - Request timeout error"
ApiErrors == {ErrNotFound, ErrChatNotFound, ErrTimeout}

NoReply == [kind |-> "none"]
ErrorReply(e) == [kind |-> "error", error |-> e]
MemberReply(u, st) == [kind |-> "member", user |-> u, status |-> st]
ListReply(l) == [kind |-> "list", list |-> l]
CountReply(n) == [kind |-> "count", count |-> n]
Ok == [kind |-> "ok"]

\* bot.get_chat_member(chat_id, user_id) for a sender whose status is st
SenderLookupReplies(u, st) == {MemberReply(u, st), ErrorReply(ErrTimeout)}

\* bot.get_chat_member(chat_id, "@" + username): a user carrying that handle, in
\* any status, or an error
HandleLookupReplies(username) ==
    {MemberReply(u, st) : u \in {v \in UserIds : /\ username_of[v] # None
                                                 /\ Lower(username_of[v]) = username},
                          st \in {"administrator", "member", "left", "kicked"}}
    \cup {ErrorReply(e) : e \in ApiErrors}

\* bot.get_chat_administrators(chat_id)
AdminListReplies ==
    {ListReply(l) : l \in {<<>>, <<"u2">>, <<"u2", "u3">>, <<"u1", "u3">>}}
    \cup {ErrorReply(ErrTimeout)}

\* bot.get_chat_member_count(chat_id), sampled around the two thresholds of the verifier
SmallGroupMax == 200
LargeGroupMax == 1000
MemberCountReplies ==
    {CountReply(n) : n \in {SmallGroupMax, SmallGroupMax + 1, LargeGroupMax, LargeGroupMax + 1}}
    \cup {ErrorReply(ErrTimeout)}

\* message.delete() and message.answer()
SendReplies == {Ok, ErrorReply("Telegram server says - Bad Request: message can't be deleted"),
                ErrorReply(ErrTimeout)}

(***************************************************************************)
(* The messages that arrive                                                *)
(***************************************************************************)
Contents ==
    { Content("check this out http://spam.example", None, <<>>, <<>>),
      Content("buy now bitcoin at t.me/x @ghost", None, <<>>, <<>>),
      Content("thanks @Alice", None, <<Entity("mention", 7, 6)>>, <<>>),
      Content("@ghost and @spam_bot1", None, <<>>, <<>>),
      Content("ask @abc or @evan", None, <<>>, <<>>),
      Content("buy now guaranteed profit", None, <<>>, <<>>),
      Content("buy now forex deal @Alice", None, <<>>, <<>>),
      Content("hello there", None, <<>>, <<>>),
      Content(None, "click me", <<>>, <<Entity("text_link", 0, 8)>>),
      Content(None, None, <<>>, <<>>) }

(***************************************************************************)
(* database.py: the tables group_members (primary key group_id, user_id)   *)
(* and group_settings (primary key group_id) as functions from the keys    *)
(* present to their rows                                                   *)
(***************************************************************************)
VARIABLES group_members, group_settings, now, tasks, twin, timers, probe

vars == <<group_members, group_settings, now, tasks, twin, timers, probe>>

MemberRow(username, first_name, last_name, is_verified, ts) ==
    [username |-> username, first_name |-> first_name, last_name |-> last_name,
     is_verified |-> is_verified, updated_at |-> ts]

SettingsRow(jl, links, ads) ==
    [delete_join_leave |-> jl, delete_links |-> links, delete_ads |-> ads]

\* INSERT OR REPLACE
Put(tbl, key, row) == [k \in DOMAIN tbl \cup {key} |-> IF k = key THEN row ELSE tbl[k]]

\* DELETE of the rows whose key is in keys
Drop(tbl, keys) == [k \in DOMAIN tbl \ keys |-> tbl[k]]

\* update_group_member as INSERT OR IGNORE: the row already stored stays
update_group_member_KeepsFirst(gm, group_id, user_id, username, first_name, last_name, is_verified) ==
    IF <<group_id, user_id>> \in DOMAIN gm THEN gm
    ELSE Put(gm, <<group_id, user_id>>, MemberRow(username, first_name, last_name, is_verified, now))

\* Database.update_group_member
update_group_member(gm, group_id, user_id, username, first_name, last_name, is_verified) ==
    Put(gm, <<group_id, user_id>>, MemberRow(username, first_name, last_name, is_verified, now))

\* remove_group_member withdrawing the verification and keeping the row
remove_group_member_Unverifies(gm, group_id, user_id) ==
    [k \in DOMAIN gm |-> IF k = <<group_id, user_id>>
                         THEN [gm[k] EXCEPT !.is_verified = FALSE] ELSE gm[k]]

\* Database.remove_group_member
remove_group_member(gm, group_id, user_id) == Drop(gm, {<<group_id, user_id>>})

\* cleanup_unverified_users without the test of the group
cleanup_unverified_users_AnyGroup(gm, group_id, days_old) ==
    Drop(gm, {k \in DOMAIN gm : /\ gm[k].is_verified = FALSE
                                /\ gm[k].updated_at < now - days_old})

\* Database.cleanup_unverified_users; updated_at and the clock count days
cleanup_unverified_users(gm, group_id, days_old) ==
    Drop(gm, {k \in DOMAIN gm : /\ k[1] = group_id
                                /\ gm[k].is_verified = FALSE
                                /\ gm[k].updated_at < now - days_old})

\* is_user_in_group comparing the stored handle as it is written
is_user_in_group_CaseSensitive(gm, group_id, username0) ==
    IF ~Truthy(username0) THEN FALSE
    ELSE LET username == Lower(LStrip(username0, {"@"}))
         IN  IF Len(username) < MentionMinLen THEN FALSE
             ELSE \E k \in DOMAIN gm :
                     /\ k[1] = group_id
                     /\ gm[k].username # None
                     /\ gm[k].username = username
                     /\ gm[k].is_verified

\* Database.is_user_in_group
is_user_in_group(gm, group_id, username0) ==
    IF ~Truthy(username0) THEN FALSE
    ELSE LET username == Lower(LStrip(username0, {"@"}))
         IN  IF Len(username) < MentionMinLen THEN FALSE
             ELSE \E k \in DOMAIN gm :
                     /\ k[1] = group_id
                     /\ gm[k].username # None
                     /\ Lower(gm[k].username) = username
                     /\ gm[k].is_verified

\* Database.mark_user_as_verified
mark_user_as_verified(gm, group_id, username0) ==
    IF ~Truthy(username0) THEN gm
    ELSE LET username == LStrip(username0, {"@"})
         IN  [k \in DOMAIN gm |->
                 IF /\ k[1] = group_id
                    /\ gm[k].username # None
                    /\ Lower(gm[k].username) = Lower(username)
                 THEN [gm[k] EXCEPT !.is_verified = TRUE, !.updated_at = now]
                 ELSE gm[k]]

\* get_group_settings with the advertisement filter off by default
get_group_settings_AdsOff(gs, group_id) ==
    IF group_id \in DOMAIN gs THEN gs[group_id] ELSE SettingsRow(TRUE, TRUE, FALSE)

\* Database.get_group_settings
get_group_settings(gs, group_id) ==
    IF group_id \in DOMAIN gs THEN gs[group_id] ELSE SettingsRow(TRUE, TRUE, TRUE)

(***************************************************************************)
(* handlers.py: BotHandlers._process_group_message, one task per message.  *)
(* A task is the coroutine's frame: pc names the await it is suspended at. *)
(* The step operators map a context [task, gm] (the frame and the          *)
(* group_members table) and the answer of the awaited call to the context  *)
(* at the next await.                                                      *)
(***************************************************************************)
\* what the analysers return for each content (evaluated once per content)
Analysed ==
    [m \in Contents |-> [has_links |-> has_links(m),
                         mentions |-> extract_mentions(m),
                         is_potential_ad |-> is_potential_ad(m)]]

ReasonLink == "guruhda link tarqatish taqiqlanadi"
ReasonAd == "reklama xabarlar taqiqlanadi"
ReasonMentionOne == " bu guruh a'zosi emas, begona foydalanuvchilarni mention qilish taqiqlanadi"
ReasonMentionMany == " bu guruh a'zolari emas, begona foydalanuvchilarni mention qilish taqiqlanadi"
\* stands for the warning sign U+26A0 U+FE0F that opens every warning
WarningSign == "(!)"
EditedNote == "tahrirlangan xabaringiz o'chirildi - "

EmptyTable == [k \in {} |-> None]

\* a local variable not yet assigned
Unset == [kind |-> "unset"]

IdleTask ==
    [pc |-> "idle", chat |-> None, sender |-> None, sender_status |-> None,
     message |-> Content(None, None, <<>>, <<>>), is_edited |-> FALSE,
     member |-> NoReply, settings |-> Unset,
     should_delete |-> FALSE, reason |-> "",
     mentions |-> <<>>, idx |-> 0, invalid_mentions |-> <<>>,
     username |-> None, v_member |-> NoReply, v_admins |-> NoReply, v_admin |-> None,
     v_count |-> NoReply, v_result |-> FALSE, v_gm |-> EmptyTable,
     checked |-> <<>>, calls |-> <<>>, raised |-> <<>>,
     deleted |-> FALSE, warning |-> None]

\* an API call made by the task: username is the handle being verified, None outside
\* the verifier
Call(op, arg, username) == [op |-> op, arg |-> arg, username |-> username]

\* TextFormatter.get_user_mention (utils.py)
get_user_mention(u) ==
    IF Truthy(username_of[u]) THEN "@" \o username_of[u]
    ELSE IF Truthy(last_name_of[u]) THEN first_name_of[u] \o " " \o last_name_of[u]
    ELSE first_name_of[u]

\* the reason built from invalid_mentions
MentionReason(invalid_mentions) ==
    IF Len(invalid_mentions) = 1 THEN "@" \o invalid_mentions[1] \o ReasonMentionOne
    ELSE Join(", ", [k \in 1..Len(invalid_mentions) |-> "@" \o invalid_mentions[k]])
         \o ReasonMentionMany

\* AdRule applied to new messages only
AdRule_NewOnly(task) ==
    LET hit == /\ ~task.should_delete /\ ~task.is_edited
               /\ task.settings.delete_ads /\ Analysed[task.message].is_potential_ad
        t1 == IF hit THEN [task EXCEPT !.should_delete = TRUE, !.reason = ReasonAd] ELSE task
    IN  [t1 EXCEPT !.pc = IF t1.should_delete THEN "delete" ELSE "done"]

\* AdRule without the test of should_delete
AdRule_Overrides(task) ==
    LET hit == task.settings.delete_ads /\ Analysed[task.message].is_potential_ad
        t1 == IF hit THEN [task EXCEPT !.should_delete = TRUE, !.reason = ReasonAd] ELSE task
    IN  [t1 EXCEPT !.pc = IF t1.should_delete THEN "delete" ELSE "done"]

\* the advertisement rule, then the branch on should_delete
AdRule(task) ==
    LET hit == /\ ~task.should_delete
               /\ task.settings.delete_ads
               /\ Analysed[task.message].is_potential_ad
        t1 == IF hit THEN [task EXCEPT !.should_delete = TRUE, !.reason = ReasonAd] ELSE task
    IN  [t1 EXCEPT !.pc = IF t1.should_delete THEN "delete" ELSE "done"]

\* the end of the mention loop: the invalid-mentions verdict, then the rules after it
AfterMentions(task) ==
    IF Len(task.invalid_mentions) > 0
    THEN AdRule([task EXCEPT !.should_delete = TRUE,
                             !.reason = MentionReason(task.invalid_mentions)])
    ELSE AdRule(task)

RECURSIVE NextMention(_)
\* the head of the loop over mentions: skip the short ones, stop at the one to check
NextMention(task) ==
    IF task.idx > Len(task.mentions) THEN AfterMentions(task)
    ELSE IF Len(task.mentions[task.idx]) < MentionMinLen
         THEN NextMention([task EXCEPT !.idx = task.idx + 1])
         ELSE [task EXCEPT !.pc = "mention_db"]

\* StepAdminCheck with the administrator branch returning before its upsert
StepAdminCheck_AdminsReturn(c, reply) ==
    LET task == c.task
        is_admin == reply.kind = "member" /\ reply.status \in {"administrator", "creator"}
    IN  [c EXCEPT !.task = [task EXCEPT
            !.member = reply,
            !.calls = Append(task.calls, Call("get_chat_member", task.sender, None)),
            !.pc = IF is_admin THEN "done" ELSE "upsert"]]

\* await self.bot.get_chat_member(message.chat.id, message.from_user.id)
StepAdminCheck(c, reply) ==
    LET task == c.task
        is_admin == reply.kind = "member" /\ reply.status \in {"administrator", "creator"}
    IN  [c EXCEPT !.task = [task EXCEPT
            !.member = reply,
            !.calls = Append(task.calls, Call("get_chat_member", task.sender, None)),
            !.pc = IF is_admin THEN "admin_upsert" ELSE "upsert"]]

\* StepUpsertSender going on without writing the record
StepUpsertSender_NoWrite(c, nextpc) ==
    [task |-> [c.task EXCEPT !.pc = nextpc], gm |-> c.gm]

\* the sender's upsert, in the administrator branch (nextpc = "done") and after it
StepUpsertSender(c, nextpc) ==
    LET task == c.task
        u == task.sender
    IN  [task |-> [task EXCEPT !.pc = nextpc],
         gm |-> update_group_member(c.gm, task.chat, u, username_of[u], first_name_of[u],
                                    last_name_of[u], TRUE)]

\* StepSettings with the two branches in the other order: the link rule is reached
\* only by a message without mentions
StepSettings_MentionsFirst(c, gs) ==
    LET task == c.task
        settings == get_group_settings(gs, task.chat)
        t1 == [task EXCEPT !.settings = settings]
        a == Analysed[task.message]
    IN  [c EXCEPT !.task =
            IF (Truthy(task.message.text) \/ Truthy(task.message.caption)) /\ Len(a.mentions) > 0
            THEN NextMention([t1 EXCEPT !.mentions = a.mentions, !.idx = 1])
            ELSE IF settings.delete_links /\ a.has_links
                 THEN AdRule([t1 EXCEPT !.should_delete = TRUE, !.reason = ReasonLink])
                 ELSE AdRule(t1)]

\* await self.db.get_group_settings, the link rule and the start of the mention loop
StepSettings(c, gs) ==
    LET task == c.task
        settings == get_group_settings(gs, task.chat)
        t1 == [task EXCEPT !.settings = settings]
        a == Analysed[task.message]
    IN  [c EXCEPT !.task =
            IF settings.delete_links /\ a.has_links
            THEN AdRule([t1 EXCEPT !.should_delete = TRUE, !.reason = ReasonLink])
            ELSE IF Truthy(task.message.text) \/ Truthy(task.message.caption)
                 THEN IF Len(a.mentions) > 0
                      THEN NextMention([t1 EXCEPT !.mentions = a.mentions, !.idx = 1])
                      ELSE AdRule(t1)
                 ELSE AdRule(t1)]

\* StepMentionDb calling the verifier whatever is_user_in_group answers
StepMentionDb_AlwaysVerifies(c, inp) ==
    LET task == c.task
        mention == task.mentions[task.idx]
    IN  [c EXCEPT !.task = [task EXCEPT !.pc = "v_lookup",
                                        !.username = Lower(LStrip(mention, {"@"})),
                                        !.v_gm = c.gm]]

\* await self.db.is_user_in_group(message.chat.id, mention)
StepMentionDb(c, inp) ==
    LET task == c.task
        mention == task.mentions[task.idx]
        is_in_group == is_user_in_group(c.gm, task.chat, mention)
    IN  [c EXCEPT !.task =
            IF is_in_group
            THEN NextMention([task EXCEPT
                    !.checked = Append(task.checked,
                                       [mention |-> mention, is_in_group |-> TRUE,
                                        asked |-> FALSE, user_exists_in_chat |-> FALSE]),
                    !.idx = task.idx + 1])
            ELSE [task EXCEPT !.pc = "v_lookup",
                              !.username = Lower(LStrip(mention, {"@"})),
                              !.v_gm = c.gm]]

\* the exceptions a call of the store raises (aiosqlite)
StoreErrors == {"database is locked"}

\* the task with the exception of a store call logged
Raise(task, op, err) == [task EXCEPT !.raised = Append(task.raised, [op |-> op, error |-> err])]

\* update_group_member raises in the administrator branch: caught by the inner
\* "except Exception", and the processing goes on as for a member
StepAdminUpsertFails(c, err) ==
    [c EXCEPT !.task = [Raise(c.task, "update_group_member", err) EXCEPT !.pc = "upsert"]]

\* StepStoreFails logging a failed upsert of the sender and going on to the
\* settings
StepStoreFails_UpsertSwallowed(c, inp) ==
    [c EXCEPT !.task = [Raise(c.task, inp.op, inp.error)
                           EXCEPT !.pc = IF inp.op = "update_group_member"
                                         THEN "settings" ELSE "done"]]

\* a store call of the pipeline raises outside the inner try: caught by the outer
\* "except Exception", which ends the processing
StepStoreFails(c, inp) ==
    [c EXCEPT !.task = [Raise(c.task, inp.op, inp.error) EXCEPT !.pc = "done"]]

(***************************************************************************)
(* handlers.py: BotHandlers.check_user_in_chat_by_username, run inside the *)
(* task that called it.  v_result is the value returned, read at pc        *)
(* "v_done"; v_gm is the table as it was when the verifier was entered.    *)
(***************************************************************************)
SuspiciousWords == {"spam", "fake", "bot", "admin"}

EndsWith(str, suffix) ==
    Len(str) >= Len(suffix) /\ SubSeq(str, Len(str) - Len(suffix) + 1, Len(str)) = suffix

VerifierReturns(task, result) == [task EXCEPT !.v_result = result, !.pc = "v_done"]

\* StepVLookup going from a transient error straight to the member count
StepVLookup_SkipsAdmins(c, reply) ==
    LET task == [c.task EXCEPT
                    !.v_member = reply,
                    !.calls = Append(c.task.calls, Call("get_chat_member", "@" \o c.task.username,
                                                  c.task.username))]
    IN  [c EXCEPT !.task =
            IF reply.kind = "member"
            THEN IF reply.status \notin {"kicked", "left"}
                 THEN [task EXCEPT !.pc = "v_upsert"]
                 ELSE VerifierReturns(task, FALSE)
            ELSE LET error_msg == Lower(reply.error)
                 IN  IF Contains(error_msg, "user not found") \/ Contains(error_msg, "bad request")
                     THEN VerifierReturns(task, FALSE)
                     ELSE [task EXCEPT !.pc = "v_count"]]

\* StepVLookup accepting the status "member" alone
StepVLookup_MembersOnly(c, reply) ==
    LET task == [c.task EXCEPT
                    !.v_member = reply,
                    !.calls = Append(c.task.calls, Call("get_chat_member", "@" \o c.task.username,
                                                  c.task.username))]
    IN  [c EXCEPT !.task =
            IF reply.kind = "member"
            THEN IF reply.status = "member"
                 THEN [task EXCEPT !.pc = "v_upsert"]
                 ELSE VerifierReturns(task, FALSE)
            ELSE LET error_msg == Lower(reply.error)
                 IN  IF Contains(error_msg, "user not found") \/ Contains(error_msg, "bad request")
                     THEN VerifierReturns(task, FALSE)
                     ELSE [task EXCEPT !.pc = "v_admins"]]

\* StepVLookup taking every error of the lookup for a transient one
StepVLookup_AllTransient(c, reply) ==
    LET task == [c.task EXCEPT
                    !.v_member = reply,
                    !.calls = Append(c.task.calls, Call("get_chat_member", "@" \o c.task.username,
                                                  c.task.username))]
    IN  [c EXCEPT !.task =
            IF reply.kind = "member"
            THEN IF reply.status \notin {"kicked", "left"}
                 THEN [task EXCEPT !.pc = "v_upsert"]
                 ELSE VerifierReturns(task, FALSE)
            ELSE [task EXCEPT !.pc = "v_admins"]]

\* StepVLookup going on to the administrator list for a member kicked or left
StepVLookup_InactiveFallsThrough(c, reply) ==
    LET task == [c.task EXCEPT
                    !.v_member = reply,
                    !.calls = Append(c.task.calls, Call("get_chat_member", "@" \o c.task.username,
                                                  c.task.username))]
    IN  [c EXCEPT !.task =
            IF reply.kind = "member"
            THEN IF reply.status \notin {"kicked", "left"}
                 THEN [task EXCEPT !.pc = "v_upsert"]
                 ELSE [task EXCEPT !.pc = "v_admins"]
            ELSE LET error_msg == Lower(reply.error)
                 IN  IF Contains(error_msg, "user not found") \/ Contains(error_msg, "bad request")
                     THEN VerifierReturns(task, FALSE)
                     ELSE [task EXCEPT !.pc = "v_admins"]]

\* Method 1: member = await self.bot.get_chat_member(chat_id, f"@{username}")
StepVLookup(c, reply) ==
    LET task == [c.task EXCEPT
                    !.v_member = reply,
                    !.calls = Append(c.task.calls, Call("get_chat_member", "@" \o c.task.username,
                                                  c.task.username))]
    IN  [c EXCEPT !.task =
            IF reply.kind = "member"
            THEN IF reply.status \notin {"kicked", "left"}
                 THEN [task EXCEPT !.pc = "v_upsert"]
                 ELSE VerifierReturns(task, FALSE)
            ELSE LET error_msg == Lower(reply.error)
                 IN  IF Contains(error_msg, "user not found") \/ Contains(error_msg, "bad request")
                     THEN VerifierReturns(task, FALSE)
                     ELSE [task EXCEPT !.pc = "v_admins"]]

\* the upsert of the member found by Method 1 or of the administrator found by Method 2
StepVUpsert(c, u) ==
    [task |-> VerifierReturns(c.task, TRUE),
     gm |-> update_group_member(c.gm, c.task.chat, u, username_of[u], first_name_of[u],
                                last_name_of[u], TRUE)]

\* StepVLookupUpsertFails letting the exception of the store leave the verifier
StepVLookupUpsertFails_Propagates(c, err) ==
    [c EXCEPT !.task = [Raise(c.task, "update_group_member", err) EXCEPT !.pc = "done"]]

\* update_group_member raises in Method 1: caught by the except of Method 1, which
\* reads the text of the exception as it reads the platform's
StepVLookupUpsertFails(c, err) ==
    LET task == Raise(c.task, "update_group_member", err)
        error_msg == Lower(err)
    IN  [c EXCEPT !.task =
            IF Contains(error_msg, "user not found") \/ Contains(error_msg, "bad request")
            THEN VerifierReturns(task, FALSE)
            ELSE [task EXCEPT !.pc = "v_admins"]]

\* update_group_member raises in Method 2: caught by the except of Method 2
StepVAdminUpsertFails(c, err) ==
    [c EXCEPT !.task = [Raise(c.task, "update_group_member", err) EXCEPT !.pc = "v_count"]]

RECURSIVE FirstAdmin_CaseSensitive(_, _, _)
\* FirstAdmin comparing the administrator's handle as it is written
FirstAdmin_CaseSensitive(administrators, k, username) ==
    IF k > Len(administrators) THEN None
    ELSE IF /\ Truthy(username_of[administrators[k]])
            /\ username_of[administrators[k]] = username
         THEN administrators[k]
         ELSE FirstAdmin_CaseSensitive(administrators, k + 1, username)

RECURSIVE FirstAdmin(_, _, _)
\* the first administrator of the list whose handle is the queried one, None if none is
FirstAdmin(administrators, k, username) ==
    IF k > Len(administrators) THEN None
    ELSE IF /\ Truthy(username_of[administrators[k]])
            /\ Lower(username_of[administrators[k]]) = username
         THEN administrators[k]
         ELSE FirstAdmin(administrators, k + 1, username)

\* Method 2: administrators = await self.bot.get_chat_administrators(chat_id)
StepVAdmins(c, reply) ==
    LET task == [c.task EXCEPT
                    !.v_admins = reply,
                    !.calls = Append(c.task.calls, Call("get_chat_administrators", c.task.chat,
                                                  c.task.username))]
        admin == IF reply.kind = "list" THEN FirstAdmin(reply.list, 1, task.username) ELSE None
    IN  [c EXCEPT !.task =
            IF admin # None THEN [task EXCEPT !.pc = "v_admin_upsert", !.v_admin = admin]
            ELSE [task EXCEPT !.pc = "v_count"]]

\* StepVCount letting a valid handle through in a small group
StepVCount_SmallAllows(c, reply) ==
    LET task == [c.task EXCEPT
                    !.v_count = reply,
                    !.calls = Append(c.task.calls, Call("get_chat_member_count", c.task.chat,
                                                  c.task.username))]
        username == task.username
        result ==
            IF reply.kind = "count"
            THEN IF ~is_valid_telegram_username(username) THEN FALSE
                 ELSE IF reply.count <= SmallGroupMax THEN TRUE
                 ELSE IF reply.count <= LargeGroupMax
                      THEN /\ Len(username) >= UsernameMinLen
                           /\ ~EndsWith(username, "_bot")
                           /\ ~\E suspicious \in SuspiciousWords : Contains(username, suspicious)
                           /\ is_valid_telegram_username(username)
                      ELSE Len(username) >= UsernameMinLen /\ is_valid_telegram_username(username)
            ELSE is_valid_telegram_username(username) /\ Len(username) >= UsernameMinLen
    IN  [c EXCEPT !.task = VerifierReturns(task, result)]

\* StepVCount with one threshold: every group above it is treated as a large one
StepVCount_LargeAsMedium(c, reply) ==
    LET task == [c.task EXCEPT
                    !.v_count = reply,
                    !.calls = Append(c.task.calls, Call("get_chat_member_count", c.task.chat,
                                                  c.task.username))]
        username == task.username
        result ==
            IF reply.kind = "count"
            THEN IF ~is_valid_telegram_username(username) THEN FALSE
                 ELSE IF reply.count <= SmallGroupMax THEN FALSE
                 ELSE IF reply.count > SmallGroupMax
                      THEN /\ Len(username) >= UsernameMinLen
                           /\ ~EndsWith(username, "_bot")
                           /\ ~\E suspicious \in SuspiciousWords : Contains(username, suspicious)
                           /\ is_valid_telegram_username(username)
                      ELSE Len(username) >= UsernameMinLen /\ is_valid_telegram_username(username)
            ELSE is_valid_telegram_username(username) /\ Len(username) >= UsernameMinLen
    IN  [c EXCEPT !.task = VerifierReturns(task, result)]

\* StepVCount denying when the member count is not retrieved
StepVCount_ErrorDenies(c, reply) ==
    LET task == [c.task EXCEPT
                    !.v_count = reply,
                    !.calls = Append(c.task.calls, Call("get_chat_member_count", c.task.chat,
                                                  c.task.username))]
        username == task.username
        result ==
            IF reply.kind = "count"
            THEN IF ~is_valid_telegram_username(username) THEN FALSE
                 ELSE IF reply.count <= SmallGroupMax THEN FALSE
                 ELSE IF reply.count <= LargeGroupMax
                      THEN /\ Len(username) >= UsernameMinLen
                           /\ ~EndsWith(username, "_bot")
                           /\ ~\E suspicious \in SuspiciousWords : Contains(username, suspicious)
                           /\ is_valid_telegram_username(username)
                      ELSE Len(username) >= UsernameMinLen /\ is_valid_telegram_username(username)
            ELSE FALSE
    IN  [c EXCEPT !.task = VerifierReturns(task, result)]

\* Method 3: member_count = await self.bot.get_chat_member_count(chat_id)
StepVCount(c, reply) ==
    LET task == [c.task EXCEPT
                    !.v_count = reply,
                    !.calls = Append(c.task.calls, Call("get_chat_member_count", c.task.chat,
                                                  c.task.username))]
        username == task.username
        result ==
            IF reply.kind = "count"
            THEN IF ~is_valid_telegram_username(username) THEN FALSE
                 ELSE IF reply.count <= SmallGroupMax THEN FALSE
                 ELSE IF reply.count <= LargeGroupMax
                      THEN /\ Len(username) >= UsernameMinLen
                           /\ ~EndsWith(username, "_bot")
                           /\ ~\E suspicious \in SuspiciousWords : Contains(username, suspicious)
                           /\ is_valid_telegram_username(username)
                      ELSE Len(username) >= UsernameMinLen /\ is_valid_telegram_username(username)
            ELSE is_valid_telegram_username(username) /\ Len(username) >= UsernameMinLen
    IN  [c EXCEPT !.task = VerifierReturns(task, result)]

\* StepAfterVerify with the invalid-mentions list kept to its last entry
StepAfterVerify_KeepsLast(c, inp) ==
    LET task == c.task
        mention == task.mentions[task.idx]
        user_exists_in_chat == task.v_result
        t1 == [task EXCEPT
                 !.checked = Append(task.checked,
                                    [mention |-> mention, is_in_group |-> FALSE,
                                     asked |-> TRUE, user_exists_in_chat |-> user_exists_in_chat]),
                 !.invalid_mentions =
                     IF ~user_exists_in_chat /\ is_valid_telegram_username(mention)
                     THEN <<mention>>
                     ELSE task.invalid_mentions,
                 !.username = None, !.v_member = NoReply, !.v_admins = NoReply,
                 !.v_admin = None, !.v_count = NoReply, !.v_result = FALSE,
                 !.v_gm = EmptyTable,
                 !.idx = task.idx + 1]
    IN  [task |-> NextMention(t1),
         gm |-> IF user_exists_in_chat
                THEN mark_user_as_verified(c.gm, task.chat, mention)
                ELSE c.gm]

\* StepAfterVerify collecting the mention without asking the validator
StepAfterVerify_NoValidator(c, inp) ==
    LET task == c.task
        mention == task.mentions[task.idx]
        user_exists_in_chat == task.v_result
        t1 == [task EXCEPT
                 !.checked = Append(task.checked,
                                    [mention |-> mention, is_in_group |-> FALSE,
                                     asked |-> TRUE, user_exists_in_chat |-> user_exists_in_chat]),
                 !.invalid_mentions =
                     IF ~user_exists_in_chat
                     THEN Append(task.invalid_mentions, mention)
                     ELSE task.invalid_mentions,
                 !.username = None, !.v_member = NoReply, !.v_admins = NoReply,
                 !.v_admin = None, !.v_count = NoReply, !.v_result = FALSE,
                 !.v_gm = EmptyTable,
                 !.idx = task.idx + 1]
    IN  [task |-> NextMention(t1),
         gm |-> IF user_exists_in_chat
                THEN mark_user_as_verified(c.gm, task.chat, mention)
                ELSE c.gm]

\* back in the mention loop with user_exists_in_chat: mark_user_as_verified or the
\* invalid-mentions list, then the next mention
StepAfterVerify(c, inp) ==
    LET task == c.task
        mention == task.mentions[task.idx]
        user_exists_in_chat == task.v_result
        t1 == [task EXCEPT
                 !.checked = Append(task.checked,
                                    [mention |-> mention, is_in_group |-> FALSE,
                                     asked |-> TRUE, user_exists_in_chat |-> user_exists_in_chat]),
                 !.invalid_mentions =
                     IF ~user_exists_in_chat /\ is_valid_telegram_username(mention)
                     THEN Append(task.invalid_mentions, mention)
                     ELSE task.invalid_mentions,
                 !.username = None, !.v_member = NoReply, !.v_admins = NoReply,
                 !.v_admin = None, !.v_count = NoReply, !.v_result = FALSE,
                 !.v_gm = EmptyTable,
                 !.idx = task.idx + 1]
    IN  [task |-> NextMention(t1),
         gm |-> IF user_exists_in_chat
                THEN mark_user_as_verified(c.gm, task.chat, mention)
                ELSE c.gm]

\* StepDelete going on to the warning when the deletion failed
StepDelete_WarnsAnyway(c, reply) ==
    [c EXCEPT !.task = IF reply.kind = "ok"
                       THEN [c.task EXCEPT !.deleted = TRUE, !.pc = "answer"]
                       ELSE [c.task EXCEPT !.pc = "answer"]]

\* await message.delete()
StepDelete(c, reply) ==
    [c EXCEPT !.task = IF reply.kind = "ok"
                       THEN [c.task EXCEPT !.deleted = TRUE, !.pc = "answer"]
                       ELSE [c.task EXCEPT !.pc = "done"]]

\* the warning text of a new and of an edited message
WarningText(task) ==
    IF task.is_edited
    THEN WarningSign \o " " \o get_user_mention(task.sender) \o ", " \o EditedNote
         \o task.reason \o "!"
    ELSE WarningSign \o " " \o get_user_mention(task.sender) \o ", " \o task.reason \o "!"

\* warning_msg = await message.answer(...)
StepAnswer(c, reply) ==
    [c EXCEPT !.task = IF reply.kind = "ok"
                       THEN [c.task EXCEPT !.warning = WarningText(c.task), !.pc = "done"]
                       ELSE [c.task EXCEPT !.pc = "done"]]

(***************************************************************************)
(* The state machine.  Spec delivers one update at a time: a handler       *)
(* begins only when no task is running, and the task then takes its steps  *)
(* to "done".  twin is a second run of the same message, begun from the    *)
(* same table with is_edited negated and given the same answers.           *)
(***************************************************************************)
Slots == {"t1"}

NoTwin == [on |-> FALSE, c |-> [task |-> IdleTask, gm |-> EmptyTable]]

\* the detached tasks delete_after_delay: one frame per warning, free when no such
\* task exists
WarningIds == {"w1", "w2"}
WarningDelay == 10
FreeTimer == [pc |-> "free", remaining |-> 0]
FreeIds == {w \in WarningIds : timers[w].pc = "free"}
FirstFree == CHOOSE w \in FreeIds : \A v \in FreeIds : v = "w1" => w = "w1"

\* no function is being examined on its own
NoProbe == [stage |-> "none"]

AllIdle ==
    /\ \A t \in DOMAIN tasks : tasks[t].pc = "idle"
    /\ FreeIds = WarningIds

Init ==
    /\ group_members = EmptyTable
    /\ group_settings = EmptyTable
    /\ now = 0
    /\ tasks = [t \in Slots |-> IdleTask]
    /\ twin = NoTwin
    /\ timers = [w \in WarningIds |-> FreeTimer]
    /\ probe = NoProbe

\* one step of task t: the step operator F applied to the task and the table, and
\* to the twin while it is at the same await
RunTask(F(_, _), t, inp) ==
    LET c2 == F([task |-> tasks[t], gm |-> group_members], inp)
    IN  /\ tasks' = [tasks EXCEPT ![t] = c2.task]
        /\ group_members' = c2.gm
        /\ twin' = IF twin.on /\ twin.c.task.pc = tasks[t].pc
                   THEN [twin EXCEPT !.c = F(twin.c, inp)]
                   ELSE twin
        /\ UNCHANGED <<probe, group_settings, now>>

\* a step that creates no task
Run(F(_, _), t, inp) == RunTask(F, t, inp) /\ UNCHANGED timers

\* _process_group_message entered: "if not message.from_user: return"
Begin(t, chat, sender, status, content, is_edited) ==
    LET task == [IdleTask EXCEPT
                    !.chat = chat, !.sender = sender, !.sender_status = status,
                    !.message = content, !.is_edited = is_edited,
                    !.pc = IF sender = None THEN "done" ELSE "admin_check"]
    IN  /\ tasks[t].pc = "idle"
        /\ tasks' = [tasks EXCEPT ![t] = task]
        /\ twin' = [on |-> TRUE,
                    c |-> [task |-> [task EXCEPT !.is_edited = ~is_edited],
                           gm |-> group_members]]
        /\ UNCHANGED <<probe, group_members, group_settings, now, timers>>

Senders == {<<None, None>>} \cup (UserIds \X SenderStatuses)

\* BotHandlers.handle_group_message
handle_group_message(t) ==
    /\ AllIdle
    /\ \E chat \in Chats, who \in Senders, content \in Contents :
          Begin(t, chat, who[1], who[2], content, FALSE)

\* BotHandlers.handle_edited_group_message
handle_edited_group_message(t) ==
    /\ AllIdle
    /\ \E chat \in Chats, who \in Senders, content \in Contents :
          Begin(t, chat, who[1], who[2], content, TRUE)

AdminCheck(t) ==
    /\ tasks[t].pc = "admin_check"
    /\ \E reply \in SenderLookupReplies(tasks[t].sender, tasks[t].sender_status) :
          Run(StepAdminCheck, t, reply)

AdminUpsert(t) ==
    /\ tasks[t].pc = "admin_upsert"
    /\ Run(StepUpsertSender, t, "done")

UpsertSender(t) ==
    /\ tasks[t].pc = "upsert"
    /\ Run(StepUpsertSender, t, "settings")

GetSettings(t) ==
    /\ tasks[t].pc = "settings"
    /\ Run(StepSettings, t, group_settings)

MentionDb(t) ==
    /\ tasks[t].pc = "mention_db"
    /\ Run(StepMentionDb, t, Ok)

VLookup(t) ==
    /\ tasks[t].pc = "v_lookup"
    /\ \E reply \in HandleLookupReplies(tasks[t].username) : Run(StepVLookup, t, reply)

VLookupUpsert(t) ==
    /\ tasks[t].pc = "v_upsert"
    /\ Run(StepVUpsert, t, tasks[t].v_member.user)

VAdmins(t) ==
    /\ tasks[t].pc = "v_admins"
    /\ \E reply \in AdminListReplies : Run(StepVAdmins, t, reply)

VAdminUpsert(t) ==
    /\ tasks[t].pc = "v_admin_upsert"
    /\ Run(StepVUpsert, t, tasks[t].v_admin)

VCount(t) ==
    /\ tasks[t].pc = "v_count"
    /\ \E reply \in MemberCountReplies : Run(StepVCount, t, reply)

AfterVerify(t) ==
    /\ tasks[t].pc = "v_done"
    /\ Run(StepAfterVerify, t, Ok)

DeleteMessage(t) ==
    /\ tasks[t].pc = "delete"
    /\ \E reply \in SendReplies : Run(StepDelete, t, reply)

\* warning_msg = await message.answer(...) and, when it returned,
\* asyncio.create_task(self.delete_after_delay(warning_msg, 10))
AnswerWarning(t) ==
    /\ tasks[t].pc = "answer"
    /\ FreeIds # {}
    /\ \E reply \in SendReplies :
          /\ RunTask(StepAnswer, t, reply)
          /\ timers' = IF reply.kind = "ok"
                        THEN [timers EXCEPT ![FirstFree] =
                                 [pc |-> "sleeping", remaining |-> WarningDelay]]
                        ELSE timers

\* the coroutine returns and its frame is gone
Return(t) ==
    /\ tasks[t].pc = "done"
    /\ tasks' = [tasks EXCEPT ![t] = IdleTask]
    /\ twin' = NoTwin
    /\ UNCHANGED <<probe, group_members, group_settings, now, timers>>

\* a second of the event loop's clock passes for the tasks in asyncio.sleep
Tick ==
    /\ \E w \in WarningIds : timers[w].pc = "sleeping" /\ timers[w].remaining > 0
    /\ timers' = [w \in WarningIds |->
                     IF timers[w].pc = "sleeping" /\ timers[w].remaining > 0
                     THEN [timers[w] EXCEPT !.remaining = @ - 1]
                     ELSE timers[w]]
    /\ UNCHANGED <<probe, group_members, group_settings, now, tasks, twin>>

\* delete_after_delay: await asyncio.sleep(delay) returns
SleepReturns(w) ==
    /\ timers[w].pc = "sleeping" /\ timers[w].remaining = 0
    /\ timers' = [timers EXCEPT ![w].pc = "deleting"]
    /\ UNCHANGED <<probe, group_members, group_settings, now, tasks, twin>>

\* StepWarningDelete trying again when message.delete() raised
StepWarningDelete_Retries(timer, reply) ==
    IF reply.kind = "ok" THEN FreeTimer ELSE [pc |-> "sleeping", remaining |-> 0]

\* what the task of a warning does when message.delete() has returned or raised
StepWarningDelete(timer, reply) == FreeTimer

\* delete_after_delay: await message.delete() inside try / except Exception, then
\* the task ends
WarningDelete(w) ==
    /\ timers[w].pc = "deleting"
    /\ \E reply \in SendReplies : timers' = [timers EXCEPT ![w] = StepWarningDelete(timers[w], reply)]
    /\ UNCHANGED <<probe, group_members, group_settings, now, tasks, twin>>

\* StepMemberUpdate writing the row with the flag the schema defaults to
StepMemberUpdate_DefaultFlag(gm, chat, u, status) ==
    IF status \in {"member", "restricted", "administrator", "creator"}
    THEN update_group_member(gm, chat, u, username_of[u], first_name_of[u],
                             last_name_of[u], FALSE)
    ELSE IF status \in {"kicked", "left"}
         THEN remove_group_member(gm, chat, u)
         ELSE gm

\* the store call of handle_member_update: the upsert of the one who joined or was
\* promoted, the removal of the one who left or was kicked
StepMemberUpdate(gm, chat, u, status) ==
    IF status \in {"member", "restricted", "administrator", "creator"}
    THEN update_group_member(gm, chat, u, username_of[u], first_name_of[u],
                             last_name_of[u], TRUE)
    ELSE IF status \in {"kicked", "left"}
         THEN remove_group_member(gm, chat, u)
         ELSE gm

\* BotHandlers.handle_member_update
handle_member_update(chat, u, status) ==
    /\ AllIdle
    /\ group_members' = StepMemberUpdate(group_members, chat, u, status)
    /\ UNCHANGED <<probe, group_settings, now, tasks, twin, timers>>

\* add_group writing the settings row with INSERT OR REPLACE
add_group_Resets(gs, group_id) == Put(gs, group_id, SettingsRow(TRUE, TRUE, TRUE))

\* Database.add_group: INSERT OR IGNORE INTO group_settings (group_id)
add_group(gs, group_id) ==
    IF group_id \in DOMAIN gs THEN gs ELSE Put(gs, group_id, SettingsRow(TRUE, TRUE, TRUE))

RECURSIVE populate_group_members(_, _, _)
\* BotHandlers.populate_group_members over the administrators from the k-th on
populate_group_members(gm, chat, administrators) ==
    IF Len(administrators) = 0 THEN gm
    ELSE LET u == Head(administrators)
         IN  populate_group_members(
                 update_group_member(gm, chat, u, username_of[u], first_name_of[u],
                                     last_name_of[u], TRUE),
                 chat, Tail(administrators))

\* BotHandlers.bot_added_to_group
bot_added_to_group(chat, status, reply) ==
    /\ AllIdle
    /\ group_settings' = add_group(group_settings, chat)
    /\ group_members' =
          IF status = "administrator" /\ reply.kind = "list"
          THEN populate_group_members(group_members, chat, reply.list)
          ELSE group_members
    /\ UNCHANGED <<probe, now, tasks, twin, timers>>

\* AdminHandlers.remove_group_confirmed: Database.remove_group
remove_group(chat) ==
    /\ AllIdle
    /\ group_members' = Drop(group_members, {k \in DOMAIN group_members : k[1] = chat})
    /\ group_settings' = Drop(group_settings, {chat})
    /\ UNCHANGED <<probe, now, tasks, twin, timers>>

\* AdminHandlers.handle_toggle_setting
handle_toggle_setting(chat, setting_type) ==
    /\ AllIdle
    /\ chat \in DOMAIN group_settings
    /\ group_settings' =
          [group_settings EXCEPT ![chat] =
              IF setting_type = "links" THEN [@ EXCEPT !.delete_links = ~@]
              ELSE IF setting_type = "ads" THEN [@ EXCEPT !.delete_ads = ~@]
              ELSE [@ EXCEPT !.delete_join_leave = ~@]]
    /\ UNCHANGED <<probe, group_members, now, tasks, twin, timers>>

Next ==
    \/ \E t \in Slots : handle_group_message(t)
    \/ \E t \in Slots : handle_edited_group_message(t)
    \/ \E t \in Slots : AdminCheck(t)
    \/ \E t \in Slots : AdminUpsert(t)
    \/ \E t \in Slots : UpsertSender(t)
    \/ \E t \in Slots : GetSettings(t)
    \/ \E t \in Slots : MentionDb(t)
    \/ \E t \in Slots : VLookup(t)
    \/ \E t \in Slots : VLookupUpsert(t)
    \/ \E t \in Slots : VAdmins(t)
    \/ \E t \in Slots : VAdminUpsert(t)
    \/ \E t \in Slots : VCount(t)
    \/ \E t \in Slots : AfterVerify(t)
    \/ \E t \in Slots : DeleteMessage(t)
    \/ \E t \in Slots : AnswerWarning(t)
    \/ \E t \in Slots : Return(t)
    \/ Tick
    \/ \E w \in WarningIds : SleepReturns(w)
    \/ \E w \in WarningIds : WarningDelete(w)
    \/ \E chat \in Chats, u \in UserIds, status \in Statuses : handle_member_update(chat, u, status)
    \/ \E chat \in Chats, status \in {"administrator", "member"}, reply \in AdminListReplies :
          bot_added_to_group(chat, status, reply)
    \/ \E chat \in Chats : remove_group(chat)
    \/ \E chat \in Chats, setting_type \in {"links", "ads", "join"} :
          handle_toggle_setting(chat, setting_type)

Spec == Init /\ [][Next]_vars

(***************************************************************************)
(* FaultSpec: Spec with a store whose calls may raise.                      *)
(***************************************************************************)
AdminUpsertFails(t) ==
    /\ tasks[t].pc = "admin_upsert"
    /\ \E err \in StoreErrors : Run(StepAdminUpsertFails, t, err)

\* update_group_member of the sender, get_group_settings, is_user_in_group or
\* mark_user_as_verified raises
PipelineStoreFails(t) ==
    /\ \/ tasks[t].pc \in {"upsert", "settings", "mention_db"}
       \/ tasks[t].pc = "v_done" /\ tasks[t].v_result
    /\ \E err \in StoreErrors :
          Run(StepStoreFails, t,
              [op |-> IF tasks[t].pc = "upsert" THEN "update_group_member"
                      ELSE IF tasks[t].pc = "settings" THEN "get_group_settings"
                      ELSE IF tasks[t].pc = "mention_db" THEN "is_user_in_group"
                      ELSE "mark_user_as_verified",
               error |-> err])

VLookupUpsertFails(t) ==
    /\ tasks[t].pc = "v_upsert"
    /\ \E err \in StoreErrors : Run(StepVLookupUpsertFails, t, err)

VAdminUpsertFails(t) ==
    /\ tasks[t].pc = "v_admin_upsert"
    /\ \E err \in StoreErrors : Run(StepVAdminUpsertFails, t, err)

StoreFails ==
    \/ \E t \in Slots : AdminUpsertFails(t)
    \/ \E t \in Slots : PipelineStoreFails(t)
    \/ \E t \in Slots : VLookupUpsertFails(t)
    \/ \E t \in Slots : VAdminUpsertFails(t)

NextFault == Next \/ StoreFails

FaultSpec == Init /\ [][NextFault]_vars

(***************************************************************************)
(* Properties                                                              *)
(***************************************************************************)
\* the task has read the settings, so the rules are being or have been applied
Evaluated(task) == task.settings # Unset

\* the three rules have been applied: should_delete and reason are final
Decided(task) == Evaluated(task) /\ task.pc \in {"delete", "answer", "done"}

IsAdminStatus(st) == st \in {"administrator", "creator"}

\* the link rule's condition, read from the settings the task read
LinkFires(task) == task.settings.delete_links /\ Analysed[task.message].has_links

AdFires(task) == task.settings.delete_ads /\ Analysed[task.message].is_potential_ad

\* a verified row of the group carries the handle, whatever the case of its letters
VerifiedRecord(gm, chat, handle) ==
    \E k \in DOMAIN gm :
        /\ k[1] = chat
        /\ gm[k].is_verified
        /\ gm[k].username # None
        /\ Lower(gm[k].username) = Lower(handle)

\* the calls the task made while verifying the handle
VerifierCalls(task, handle) == SelectSeq(task.calls, LAMBDA call : call.username = handle)

Ops(calls) == [k \in 1..Len(calls) |-> calls[k].op]

\* C1: for a non-admin sender, once the rules are applied, delete_links enabled
\* and a link detected give the verdict "delete" with the link reason, whatever
\* mentions or advertisement signals the message carries.
C1_LinkRuleDecides ==
    \A t \in DOMAIN tasks :
        (/\ Decided(tasks[t])
         /\ ~IsAdminStatus(tasks[t].sender_status)
         /\ LinkFires(tasks[t]))
        => (tasks[t].should_delete /\ tasks[t].reason = ReasonLink)

\* a member's message with a link, a mention and advertisement phrases was deleted
\* for the link
C1_Witness ==
    \E t \in DOMAIN tasks :
        /\ tasks[t].pc = "done"
        /\ tasks[t].sender_status = "member"
        /\ Evaluated(tasks[t]) /\ LinkFires(tasks[t])
        /\ Len(Analysed[tasks[t].message].mentions) > 0
        /\ Analysed[tasks[t].message].is_potential_ad /\ tasks[t].settings.delete_ads
        /\ tasks[t].deleted /\ tasks[t].reason = ReasonLink

\* the entries of the log of checked mentions that the rule of C2 collects:
\* no verified record, the verifier returned false, and (if validated) the handle
\* passes the validator
RECURSIVE Collected(_, _)
Collected(checked, validated) ==
    IF Len(checked) = 0 THEN <<>>
    ELSE LET e == Head(checked)
             rest == Collected(Tail(checked), validated)
         IN  IF /\ ~e.is_in_group /\ e.asked /\ ~e.user_exists_in_chat
                /\ (validated => is_valid_telegram_username(e.mention))
             THEN <<e.mention>> \o rest
             ELSE rest

SeqSet(seq) == {seq[k] : k \in 1..Len(seq)}

\* the handles a reason names, among the mentions of the message
Named(task) == {h \in SeqSet(Analysed[task.message].mentions) : Contains(task.reason, "@" \o h)}

MentionRuleHolds(task, validated) ==
    (/\ Decided(task)
     /\ ~LinkFires(task)
     /\ Truthy(task.message.text) \/ Truthy(task.message.caption))
    => /\ [k \in 1..Len(task.checked) |-> task.checked[k].mention]
              = Analysed[task.message].mentions
       /\ task.invalid_mentions = Collected(task.checked, validated)
       /\ Len(task.invalid_mentions) > 0
              => /\ task.should_delete
                 /\ Named(task) = SeqSet(task.invalid_mentions)
                 /\ task.reason \notin {ReasonLink, ReasonAd}

\* C2 as stated: every mention without a verified record for which the verifier
\* returned false is in the invalid-mentions list, and a non-empty list gives the
\* verdict "delete" with a reason naming exactly its handles.
C2_Original == \A t \in DOMAIN tasks : MentionRuleHolds(tasks[t], FALSE)

\* C2 amended: the same for the mentions that also pass the handle validator.
C2_ValidUnverifiedMentionsCollected == \A t \in DOMAIN tasks : MentionRuleHolds(tasks[t], TRUE)

\* two handles were collected and the message was deleted for them
C2_Witness ==
    \E t \in DOMAIN tasks :
        /\ tasks[t].pc = "done" /\ tasks[t].deleted
        /\ Len(tasks[t].invalid_mentions) = 2
        /\ Len(tasks[t].checked) = 2

\* C3: when the only mention of a message has a verified record as it is looked
\* up (whatever the case of the letters) and neither the link nor the
\* advertisement rule fires, the lookup ends the processing: not deleted, and no
\* platform call is made for the handle.
C3_VerifiedMentionKept ==
    [][\A t \in DOMAIN tasks :
          (/\ tasks[t].pc = "mention_db"
           /\ tasks'[t].pc # "mention_db"
           /\ Len(tasks[t].mentions) = 1
           /\ VerifiedRecord(group_members, tasks[t].chat, tasks[t].mentions[1])
           /\ ~LinkFires(tasks[t]) /\ ~AdFires(tasks[t]))
          => /\ tasks'[t].pc = "done"
             /\ ~tasks'[t].should_delete
             /\ tasks'[t].calls = tasks[t].calls
             /\ \A k \in 1..Len(tasks'[t].calls) :
                    tasks'[t].calls[k].op \notin {"get_chat_administrators", "get_chat_member_count"}
                    /\ tasks'[t].calls[k].username = None]_vars

\* "thanks @Alice" from someone else than Alice was kept on the record "Alice"
C3_Witness ==
    \E t \in DOMAIN tasks :
        /\ tasks[t].pc = "done" /\ Evaluated(tasks[t])
        /\ tasks[t].mentions = <<"alice">>
        /\ tasks[t].sender # "u1"
        /\ tasks[t].checked = <<[mention |-> "alice", is_in_group |-> TRUE,
                                 asked |-> FALSE, user_exists_in_chat |-> FALSE]>>
        /\ <<tasks[t].chat, "u1">> \in DOMAIN group_members
        /\ group_members[<<tasks[t].chat, "u1">>].username = "Alice"
        /\ ~tasks[t].should_delete
        /\ Len(tasks[t].calls) = 1

\* C4: a verdict with the advertisement reason is reached only with delete_ads
\* enabled, the scorer firing, the link rule not firing and no invalid mention.
C4_AdRuleLast ==
    \A t \in DOMAIN tasks :
        (Evaluated(tasks[t]) /\ tasks[t].reason = ReasonAd)
        => /\ tasks[t].should_delete
           /\ tasks[t].settings.delete_ads
           /\ Analysed[tasks[t].message].is_potential_ad
           /\ ~LinkFires(tasks[t])
           /\ tasks[t].invalid_mentions = <<>>

\* an advertisement with a verified mention was deleted as an advertisement
C4_Witness ==
    \E t \in DOMAIN tasks :
        /\ tasks[t].pc = "done" /\ tasks[t].deleted
        /\ tasks[t].reason = ReasonAd
        /\ Len(tasks[t].checked) > 0

\* the store holds a verified record of user u in the chat carrying u's handle
SenderRecorded(gm, chat, u) ==
    /\ <<chat, u>> \in DOMAIN gm
    /\ gm[<<chat, u>>].is_verified
    /\ gm[<<chat, u>>].username = username_of[u]

\* C5 as stated: the message of an administrator or creator is never deleted,
\* and once it is processed the store holds a verified record of the sender.
C5_AdminNeverDeleted ==
    \A t \in DOMAIN tasks :
        IsAdminStatus(tasks[t].sender_status)
        => /\ ~tasks[t].should_delete
           /\ ~tasks[t].deleted
           /\ tasks[t].pc = "done"
                  => SenderRecorded(group_members, tasks[t].chat, tasks[t].sender)

\* C6: once a message with a sender is processed, kept or deleted, the store
\* holds a verified record for (chat, sender) with the sender's current handle.
C6_SenderRecorded ==
    \A t \in DOMAIN tasks :
        (tasks[t].pc = "done" /\ tasks[t].sender # None)
        => SenderRecorded(group_members, tasks[t].chat, tasks[t].sender)

\* the message of a sender without a handle was deleted and the sender recorded,
\* while the check of the sender's status had failed
C6_Witness ==
    \E t \in DOMAIN tasks :
        /\ tasks[t].pc = "done" /\ tasks[t].deleted
        /\ tasks[t].sender = "u2"
        /\ tasks[t].member.kind = "error"
        /\ SenderRecorded(group_members, tasks[t].chat, "u2")

\* C7: a message processed as an edit and the same message processed as new,
\* from the same store and with the same answers, are at every step at the same
\* point with the same verdict, reason, invalid mentions, calls and store; the
\* warning posted is the only difference.
C7_EditedSameAsNew ==
    \A t \in DOMAIN tasks :
        tasks[t].pc # "idle"
        => /\ twin.on
           /\ twin.c.task.is_edited = ~tasks[t].is_edited
           /\ twin.c.task.pc = tasks[t].pc
           /\ twin.c.task.should_delete = tasks[t].should_delete
           /\ twin.c.task.reason = tasks[t].reason
           /\ twin.c.task.invalid_mentions = tasks[t].invalid_mentions
           /\ twin.c.task.calls = tasks[t].calls
           /\ twin.c.task.deleted = tasks[t].deleted
           /\ twin.c.gm = group_members
           /\ (twin.c.task.warning = None) = (tasks[t].warning = None)
           /\ tasks[t].warning # None => twin.c.task.warning # tasks[t].warning

\* an edited advertisement was deleted after a verification that wrote to the
\* store, and the warning of the edit was posted
C7_Witness ==
    \E t \in DOMAIN tasks :
        /\ tasks[t].pc = "done" /\ tasks[t].is_edited
        /\ tasks[t].reason = ReasonAd
        /\ tasks[t].warning # None /\ Contains(tasks[t].warning, EditedNote)
        /\ twin.on /\ twin.c.task.warning # None
        /\ ~Contains(twin.c.task.warning, EditedNote)
        /\ \E k \in 1..Len(tasks[t].checked) : tasks[t].checked[k].asked

\* the verifier of task has returned to the mention loop
VerifierReturned(task) == task.pc = "v_done"

NotFoundReply(reply) == reply.kind = "error" /\ Contains(Lower(reply.error), "user not found")

\* the lookup neither found the handle nor reported it unknown
Inconclusive(reply) ==
    /\ reply.kind = "error"
    /\ ~Contains(Lower(reply.error), "user not found")
    /\ ~Contains(Lower(reply.error), "bad request")

\* C8: when the lookup by handle returned a member neither kicked nor left, the
\* verifier returns true, the store holds a verified record of that member with
\* the member's handle, and the only call made for the handle is the lookup.
C8_DirectLookupVerifies ==
    \A t \in DOMAIN tasks :
        (/\ VerifierReturned(tasks[t])
         /\ tasks[t].v_member.kind = "member"
         /\ tasks[t].v_member.status \notin {"kicked", "left"})
        => /\ tasks[t].v_result
           /\ SenderRecorded(group_members, tasks[t].chat, tasks[t].v_member.user)
           /\ Ops(VerifierCalls(tasks[t], tasks[t].username)) = <<"get_chat_member">>

\* an administrator found by the lookup was recorded, having had no record before
C8_Witness ==
    \E t \in DOMAIN tasks :
        /\ VerifierReturned(tasks[t])
        /\ tasks[t].v_member.kind = "member"
        /\ tasks[t].v_member.status = "administrator"
        /\ tasks[t].v_result
        /\ <<tasks[t].chat, tasks[t].v_member.user>> \notin DOMAIN tasks[t].v_gm
        /\ <<tasks[t].chat, tasks[t].v_member.user>> \in DOMAIN group_members

\* C9: when the lookup reported "user not found", the verifier returns false,
\* the only call made for the handle is the lookup, and the store is as it was
\* when the verifier was entered.
C9_NotFoundIsFinal ==
    \A t \in DOMAIN tasks :
        (VerifierReturned(tasks[t]) /\ NotFoundReply(tasks[t].v_member))
        => /\ ~tasks[t].v_result
           /\ Ops(VerifierCalls(tasks[t], tasks[t].username)) = <<"get_chat_member">>
           /\ group_members = tasks[t].v_gm

\* "user not found" was reported for a handle that passes the validator
C9_Witness ==
    \E t \in DOMAIN tasks :
        /\ VerifierReturned(tasks[t]) /\ NotFoundReply(tasks[t].v_member)
        /\ is_valid_telegram_username(tasks[t].username)
        /\ ~tasks[t].v_result
        /\ Len(tasks[t].calls) = 2

\* the administrators of a list who carry the handle, whatever the case
Carrying(administrators, handle) ==
    {u \in SeqSet(administrators) :
        Truthy(username_of[u]) /\ Lower(username_of[u]) = Lower(handle)}

\* C10: when the lookup was inconclusive and the administrator list holds a user
\* with the queried handle, whatever the case of its letters, the verifier
\* returns true and the store holds a verified record of that administrator.
C10_AdminScanVerifies ==
    \A t \in DOMAIN tasks :
        (/\ VerifierReturned(tasks[t])
         /\ Inconclusive(tasks[t].v_member)
         /\ tasks[t].v_admins.kind = "list"
         /\ Carrying(tasks[t].v_admins.list, tasks[t].username) # {})
        => /\ tasks[t].v_result
           /\ \A u \in Carrying(tasks[t].v_admins.list, tasks[t].username) :
                  SenderRecorded(group_members, tasks[t].chat, u)

\* "evan" was found as the administrator "Evan", second of the list, and recorded
C10_Witness ==
    \E t \in DOMAIN tasks :
        /\ VerifierReturned(tasks[t])
        /\ Inconclusive(tasks[t].v_member)
        /\ tasks[t].username = "evan"
        /\ tasks[t].v_admins = ListReply(<<"u2", "u3">>)
        /\ tasks[t].v_result
        /\ <<tasks[t].chat, "u3">> \notin DOMAIN tasks[t].v_gm
        /\ <<tasks[t].chat, "u3">> \in DOMAIN group_members
        /\ group_members[<<tasks[t].chat, "u3">>].username = "Evan"

\* the verifier of task reached Method 3: the lookup was inconclusive and the
\* administrator scan failed or found nobody
CountTier(task) ==
    /\ VerifierReturned(task)
    /\ Inconclusive(task.v_member)
    /\ task.v_admins.kind \in {"list", "error"}
    /\ task.v_admin = None
    /\ task.v_count.kind \in {"count", "error"}

Suspicious(handle) == \E w \in {"spam", "fake", "bot", "admin"} : Contains(handle, w)

\* C11: when lookup and administrator scan were inconclusive and the group has
\* at most 200 members, the verifier returns false, whatever the handle, and
\* the store is as it was when the verifier was entered.
C11_SmallGroupDenies ==
    \A t \in DOMAIN tasks :
        (/\ CountTier(tasks[t])
         /\ tasks[t].v_count.kind = "count"
         /\ tasks[t].v_count.count <= 200)
        => /\ ~tasks[t].v_result
           /\ group_members = tasks[t].v_gm

\* a handle that passes the validator was denied in a group of exactly 200
\* members after the administrator list was read
C11_Witness ==
    \E t \in DOMAIN tasks :
        /\ CountTier(tasks[t])
        /\ tasks[t].v_admins.kind = "list"
        /\ tasks[t].v_count = CountReply(200)
        /\ is_valid_telegram_username(tasks[t].username)
        /\ ~Suspicious(tasks[t].username)
        /\ ~tasks[t].v_result

\* the fallback's answer in a group of more than 200 members, and the store
\* untouched by the verifier and by the caller's mark_user_as_verified
LargeGroupRule(task, gm, gm_after, expected) ==
    (/\ CountTier(task)
     /\ task.v_count.kind = "count"
     /\ task.v_count.count > 200)
    => /\ task.v_result = expected
       /\ gm = task.v_gm
       /\ gm_after = task.v_gm

\* C12 as stated: above 200 members the fallback returns true exactly for the
\* valid handles without a suspicious substring, and writes nothing.
C12_Original ==
    [][\A t \in DOMAIN tasks :
          LargeGroupRule(tasks[t], group_members, group_members',
                         /\ is_valid_telegram_username(tasks[t].username)
                         /\ ~Suspicious(tasks[t].username))]_vars

\* C12 amended: from 201 to 1000 members the fallback returns true exactly for
\* the valid handles without a suspicious substring, above 1000 members exactly
\* for the valid handles; in both cases neither the verifier nor the caller's
\* mark_user_as_verified creates or changes a record.
C12_LargeGroupHeuristic ==
    [][\A t \in DOMAIN tasks :
          LargeGroupRule(tasks[t], group_members, group_members',
                         /\ is_valid_telegram_username(tasks[t].username)
                         /\ tasks[t].v_count.count <= 1000 => ~Suspicious(tasks[t].username))]_vars

\* "spam_bot1" was let through in a group of 1001 members and the loop went on
\* with the store unchanged
C12_Witness ==
    \E t \in DOMAIN tasks :
        /\ tasks[t].pc = "done"
        /\ Len(tasks[t].checked) = 2
        /\ tasks[t].checked[2].mention = "spam_bot1"
        /\ tasks[t].checked[2].asked /\ tasks[t].checked[2].user_exists_in_chat
        /\ tasks[t].checked[1].asked /\ ~tasks[t].checked[1].user_exists_in_chat
        /\ \E k \in 1..Len(tasks[t].calls) :
              tasks[t].calls[k].op = "get_chat_member_count"
              /\ tasks[t].calls[k].username = "spam_bot1"
        /\ DOMAIN group_members = {<<tasks[t].chat, tasks[t].sender>>}

\* C13 as stated: when the member count cannot be retrieved the verifier
\* returns true.
C13_Original ==
    \A t \in DOMAIN tasks :
        (CountTier(tasks[t]) /\ tasks[t].v_count.kind = "error") => tasks[t].v_result

\* C13 amended: when the member count cannot be retrieved the verifier returns,
\* without raising, true for a handle that passes the validator and false for
\* one that does not.
C13_CountFailureAllowsValid ==
    \A t \in DOMAIN tasks :
        (CountTier(tasks[t]) /\ tasks[t].v_count.kind = "error")
        => tasks[t].v_result = is_valid_telegram_username(tasks[t].username)

\* all three tiers failed for a valid handle and the verifier returned true
C13_Witness ==
    \E t \in DOMAIN tasks :
        /\ CountTier(tasks[t])
        /\ tasks[t].v_admins.kind = "error"
        /\ tasks[t].v_count.kind = "error"
        /\ is_valid_telegram_username(tasks[t].username)
        /\ tasks[t].v_result

\* the awaits inside check_user_in_chat_by_username
VerifierPcs == {"v_lookup", "v_upsert", "v_admins", "v_admin_upsert", "v_count"}

\* the step of task t in which a call of the store raised
StoreRaised(t) == Len(tasks'[t].raised) = Len(tasks[t].raised) + 1

\* the order of the awaits of the verifier, its return last
Rank(pc) ==
    CASE pc = "v_lookup" -> 1 [] pc = "v_upsert" -> 2 [] pc = "v_admins" -> 3
      [] pc = "v_admin_upsert" -> 4 [] pc = "v_count" -> 5 [] pc = "v_done" -> 6
      [] OTHER -> 0

\* C14: in the verifier an inconclusive lookup and a failed upsert of Method 1
\* lead to the administrator scan, a failed administrator scan and a failed
\* upsert of Method 2 lead to the member count; every step taken inside the
\* verifier stays inside it or returns a boolean, and moves forward in the
\* order of its awaits, so that it returns after at most five steps.
C14_VerifierFallsThrough ==
    [][\A t \in DOMAIN tasks :
            /\ (tasks[t].pc = "v_lookup" /\ tasks'[t].pc # "v_lookup"
                    /\ Inconclusive(tasks'[t].v_member))
               => tasks'[t].pc = "v_admins"
            /\ (tasks[t].pc = "v_upsert" /\ StoreRaised(t)) => tasks'[t].pc = "v_admins"
            /\ (tasks[t].pc = "v_admins" /\ tasks'[t].pc # "v_admins"
                    /\ tasks'[t].v_admins.kind = "error")
               => tasks'[t].pc = "v_count"
            /\ (tasks[t].pc = "v_admin_upsert" /\ StoreRaised(t)) => tasks'[t].pc = "v_count"
            /\ (tasks[t].pc \in VerifierPcs /\ tasks'[t].pc # tasks[t].pc)
               => /\ tasks'[t].pc \in VerifierPcs \cup {"v_done"}
                  /\ tasks'[t].v_result \in BOOLEAN
                  /\ Rank(tasks'[t].pc) > Rank(tasks[t].pc)]_vars

\* the upsert of Method 1 and then the one of Method 2 raised for the same
\* handle, and the verifier returned from the member count
C14_Witness ==
    \E t \in DOMAIN tasks :
        /\ VerifierReturned(tasks[t])
        /\ Len(tasks[t].raised) = 2
        /\ tasks[t].v_member.kind = "member"
        /\ tasks[t].v_admin # None
        /\ tasks[t].v_count.kind = "count"
        /\ Ops(VerifierCalls(tasks[t], tasks[t].username))
              = <<"get_chat_member", "get_chat_administrators", "get_chat_member_count">>

\* the platform calls of the verifier in the order of its three methods
TierOrder == <<"get_chat_member", "get_chat_administrators", "get_chat_member_count">>

\* C15: the platform calls made while verifying one handle are the member
\* lookup, then the administrator list, then the member count, each at most
\* once and none without the ones before it.
C15_TiersOnceInOrder ==
    \A t \in DOMAIN tasks :
        \A k \in 1..Len(tasks[t].calls) :
            tasks[t].calls[k].username # None
            => LET ops == Ops(VerifierCalls(tasks[t], tasks[t].calls[k].username))
               IN  Len(ops) <= 3 /\ ops = SubSeq(TierOrder, 1, Len(ops))

\* two handles were verified in one message, each through all three tiers
C15_Witness ==
    \E t \in DOMAIN tasks :
        /\ Len(tasks[t].checked) = 2
        /\ \A k \in 1..2 : Ops(VerifierCalls(tasks[t], tasks[t].checked[k].mention)) = TierOrder

\* C17: a task that reads the settings of a group without a settings record
\* (never registered, or removed) gets link, advertisement and join/leave
\* filtering enabled, and its message is decided with both filters on: a link
\* gives the link verdict, an advertisement without link and mentions the
\* advertisement verdict.  remove_group leaves the group without a record.
C17_NoRecordFullyModerated ==
    [][/\ \A t \in DOMAIN tasks :
            (/\ tasks[t].pc = "settings" /\ tasks'[t].pc # "settings"
             /\ tasks[t].chat \notin DOMAIN group_settings
             /\ tasks'[t].raised = tasks[t].raised)
            => /\ tasks'[t].settings = [delete_join_leave |-> TRUE, delete_links |-> TRUE,
                                        delete_ads |-> TRUE]
               /\ Analysed[tasks[t].message].has_links
                      => tasks'[t].should_delete /\ tasks'[t].reason = ReasonLink
               /\ (/\ ~Analysed[tasks[t].message].has_links
                   /\ Analysed[tasks[t].message].mentions = <<>>
                   /\ Analysed[tasks[t].message].is_potential_ad)
                      => tasks'[t].should_delete /\ tasks'[t].reason = ReasonAd
       /\ \A chat \in Chats : remove_group(chat) => chat \notin DOMAIN group_settings']_vars

\* an advertisement was deleted in a group that has member records and no
\* settings record
C17_Witness ==
    \E t \in DOMAIN tasks :
        /\ tasks[t].pc = "done" /\ tasks[t].deleted
        /\ tasks[t].reason = ReasonAd
        /\ tasks[t].chat \notin DOMAIN group_settings
        /\ Cardinality(DOMAIN group_members) > 1

\* the awaits of _process_group_message and of the verifier it calls, and the
\* return of the handler
HandlerPcs == {"admin_check", "admin_upsert", "upsert", "settings", "mention_db",
               "v_lookup", "v_upsert", "v_admins", "v_admin_upsert", "v_count", "v_done",
               "delete", "answer", "done"}

\* C18: a failed message.delete() ends the processing with no warning posted;
\* neither the deletion nor the warning touches the store, a warning exists
\* only for a deleted message, every step of a task leads to an await of the
\* handler or to its end, and the frame that returns leaves nothing behind for
\* the messages processed afterwards.
C18_DeleteFailureIsolated ==
    [][\A t \in DOMAIN tasks :
          /\ (tasks[t].pc = "delete" /\ tasks'[t].pc # "delete")
             => /\ \/ tasks'[t].deleted /\ tasks'[t].pc = "answer"
                   \/ ~tasks'[t].deleted /\ tasks'[t].pc = "done" /\ tasks'[t].warning = None
                /\ timers' = timers
          /\ (tasks[t].pc \in {"delete", "answer"})
             => group_members' = group_members /\ group_settings' = group_settings
          /\ tasks'[t].warning # None => tasks'[t].deleted
          /\ (tasks[t].pc \in HandlerPcs \ {"done"}) => tasks'[t].pc \in HandlerPcs
          /\ (tasks[t].pc = "done" /\ tasks'[t].pc # "done") => tasks'[t] = IdleTask]_vars

\* the deletion of a message with a link failed and the handler ended without
\* a warning and without a task for one
C18_Witness ==
    \E t \in DOMAIN tasks :
        /\ tasks[t].pc = "done"
        /\ tasks[t].should_delete /\ tasks[t].reason = ReasonLink
        /\ ~tasks[t].deleted
        /\ tasks[t].warning = None
        /\ FreeIds = WarningIds

(***************************************************************************)
(* TimerSpec: the warnings and their detached tasks.  Messages with a link *)
(* arrive while the tasks of earlier warnings are still asleep; a handler  *)
(* begins when a frame for its warning is free.  The event loop's clock    *)
(* advances and a task that can run is run: weak fairness of Tick,         *)
(* SleepReturns and WarningDelete.                                         *)
(***************************************************************************)
LinkContents == {m \in Contents : Analysed[m].has_links /\ Analysed[m].mentions = <<>>}

\* handle_group_message and handle_edited_group_message for a message with a link
LinkMessage(t) ==
    /\ tasks[t].pc = "idle"
    /\ FreeIds # {}
    /\ \E sender \in UserIds, content \in LinkContents, is_edited \in BOOLEAN :
          /\ tasks' = [tasks EXCEPT ![t] =
                          [IdleTask EXCEPT !.chat = "g1", !.sender = sender,
                                           !.sender_status = "member",
                                           !.message = content, !.is_edited = is_edited,
                                           !.pc = "admin_check"]]
          /\ UNCHANGED <<probe, group_members, group_settings, now, twin, timers>>

NextTimer ==
    \/ \E t \in Slots : LinkMessage(t)
    \/ \E t \in Slots : AdminCheck(t)
    \/ \E t \in Slots : UpsertSender(t)
    \/ \E t \in Slots : GetSettings(t)
    \/ \E t \in Slots : DeleteMessage(t)
    \/ \E t \in Slots : AnswerWarning(t)
    \/ \E t \in Slots : Return(t)
    \/ Tick
    \/ \E w \in WarningIds : SleepReturns(w)
    \/ \E w \in WarningIds : WarningDelete(w)

TimerSpec ==
    /\ Init /\ [][NextTimer]_vars
    /\ WF_vars(Tick)
    /\ \A w \in WarningIds : WF_vars(SleepReturns(w)) /\ WF_vars(WarningDelete(w))

\* the steps of the task of warning w allowed by delete_after_delay
TimerStep(w) ==
    \/ timers'[w] = timers[w]
    \/ /\ timers[w].pc = "free"
       /\ timers'[w] = [pc |-> "sleeping", remaining |-> WarningDelay]
       /\ \A v \in WarningIds \ {w} : timers'[v] = timers[v]
       /\ \E t \in DOMAIN tasks :
             /\ tasks[t].pc = "answer" /\ tasks[t].deleted
             /\ tasks'[t].pc = "done" /\ tasks'[t].warning # None
    \/ /\ timers[w].pc = "sleeping" /\ timers[w].remaining > 0
       /\ timers'[w] = [pc |-> "sleeping", remaining |-> timers[w].remaining - 1]
       /\ tasks' = tasks
    \/ /\ timers[w].pc = "sleeping" /\ timers[w].remaining = 0
       /\ timers'[w].pc = "deleting"
       /\ tasks' = tasks
    \/ /\ timers[w].pc = "deleting"
       /\ timers'[w] = FreeTimer
       /\ tasks' = tasks

\* C19: a warning posted after a successful deletion starts exactly one task,
\* which sleeps the fixed delay, makes one attempt to delete the warning and
\* ends whether or not the attempt failed; no other step starts, shortens or
\* repeats such a task, the task touches neither the handler nor the store, and
\* every task started makes its attempt and ends.
C19_WarningDeletedOnce ==
    /\ [][/\ \A w \in WarningIds : TimerStep(w)
          /\ \A t \in DOMAIN tasks :
                (tasks[t].pc = "answer" /\ tasks'[t].warning # None)
                => \E w \in WarningIds : timers[w].pc = "free" /\ timers'[w].pc = "sleeping"
          /\ timers' # timers => group_members' = group_members]_vars
    /\ \A w \in WarningIds : (timers[w].pc = "sleeping") ~> (timers[w].pc = "deleting")
    /\ \A w \in WarningIds : (timers[w].pc = "deleting") ~> (timers[w].pc = "free")

\* the handler has returned and a later message is being processed while the
\* task of the first warning makes its attempt and that of a second is asleep
C19_Witness ==
    /\ timers["w1"].pc = "deleting"
    /\ timers["w2"].pc = "sleeping"
    /\ \E t \in DOMAIN tasks : tasks[t].pc = "idle"

(***************************************************************************)
(* ConcSpec: updates handled as concurrent tasks.  Two handlers run at the *)
(* same time and take their steps in any order, member updates are handled *)
(* between their steps, and the clock of the store's CURRENT_TIMESTAMP     *)
(* advances.  A message is taken up when no warning is waiting for its     *)
(* removal.                                                                *)
(***************************************************************************)
ConcSlots == {"t1", "t2"}
MaxNow == 1
\* the messages in flight: in frame t1 a plain message of Alice, in frame t2 a
\* message of Evan that mentions her, each of them member or administrator
ConcArrivals ==
    [t1 |-> [sender |-> "u1", statuses |-> {"member", "administrator"},
             content |-> Content("hello there", None, <<>>, <<>>)],
     t2 |-> [sender |-> "u3", statuses |-> {"member", "administrator"},
             content |-> Content("thanks @Alice", None, <<Entity("mention", 7, 6)>>, <<>>)]]

ConcInit ==
    /\ group_members = EmptyTable
    /\ group_settings = EmptyTable
    /\ now = 0
    /\ tasks = [t \in ConcSlots |-> IdleTask]
    /\ twin = NoTwin
    /\ timers = [w \in WarningIds |-> FreeTimer]
    /\ probe = NoProbe

\* handle_group_message while other handlers are suspended
ConcMessage(t) ==
    /\ tasks[t].pc = "idle"
    /\ FreeIds = WarningIds
    /\ \E status \in ConcArrivals[t].statuses :
          /\ tasks' = [tasks EXCEPT ![t] =
                          [IdleTask EXCEPT !.chat = "g1", !.sender = ConcArrivals[t].sender,
                                           !.sender_status = status,
                                           !.message = ConcArrivals[t].content,
                                           !.pc = "admin_check"]]
          /\ UNCHANGED <<probe, group_members, group_settings, now, twin, timers>>

\* handle_member_update while handlers are suspended
ConcMemberUpdate(chat, u, status) ==
    /\ group_members' = StepMemberUpdate(group_members, chat, u, status)
    /\ UNCHANGED <<probe, group_settings, now, tasks, twin, timers>>

\* a second passes for CURRENT_TIMESTAMP
ClockAdvances ==
    /\ now < MaxNow
    /\ now' = now + 1
    /\ UNCHANGED <<probe, group_members, group_settings, tasks, twin, timers>>

NextConc ==
    \/ \E t \in ConcSlots : ConcMessage(t)
    \/ \E t \in ConcSlots : AdminCheck(t)
    \/ \E t \in ConcSlots : AdminUpsert(t)
    \/ \E t \in ConcSlots : UpsertSender(t)
    \/ \E t \in ConcSlots : GetSettings(t)
    \/ \E t \in ConcSlots : MentionDb(t)
    \/ \E t \in ConcSlots : VLookup(t)
    \/ \E t \in ConcSlots : VLookupUpsert(t)
    \/ \E t \in ConcSlots : VAdmins(t)
    \/ \E t \in ConcSlots : VAdminUpsert(t)
    \/ \E t \in ConcSlots : VCount(t)
    \/ \E t \in ConcSlots : AfterVerify(t)
    \/ \E t \in ConcSlots : DeleteMessage(t)
    \/ \E t \in ConcSlots : AnswerWarning(t)
    \/ \E t \in ConcSlots : Return(t)
    \/ Tick
    \/ \E w \in WarningIds : SleepReturns(w)
    \/ \E w \in WarningIds : WarningDelete(w)
    \/ \E u \in {"u1", "u3"}, status \in {"member", "left", "kicked"} :
          ConcMemberUpdate("g1", u, status)
    \/ ClockAdvances

ConcSpec == ConcInit /\ [][NextConc]_vars

(***************************************************************************)
(* LeaveSpec: the handlers of ConcSpec with a record of the leaves.        *)
(* probe.left holds the users whose leave or kick was handled and for whom *)
(* no handler that can write their record was started since: a message of *)
(* theirs, a message mentioning their handle, or a member update with a    *)
(* status of a present member.                                             *)
(***************************************************************************)
LeaveInit ==
    /\ group_members = EmptyTable
    /\ group_settings = EmptyTable
    /\ now = 0
    /\ tasks = [t \in ConcSlots |-> IdleTask]
    /\ twin = NoTwin
    /\ timers = [w \in WarningIds |-> FreeTimer]
    /\ probe = [stage |-> "leaves", left |-> {}]

\* the users whose record the handler of the arrival can upsert: the sender,
\* and through the verifier the users carrying a handle the message mentions
Writable(arrival) ==
    {arrival.sender} \cup
    {u \in UserIds : /\ username_of[u] # None
                     /\ \E k \in 1..Len(Analysed[arrival.content].mentions) :
                           Analysed[arrival.content].mentions[k] = Lower(username_of[u])}

\* handle_group_message while other handlers are suspended
LeaveMessage(t) ==
    /\ tasks[t].pc = "idle"
    /\ FreeIds = WarningIds
    /\ \E status \in ConcArrivals[t].statuses :
          /\ tasks' = [tasks EXCEPT ![t] =
                          [IdleTask EXCEPT !.chat = "g1", !.sender = ConcArrivals[t].sender,
                                           !.sender_status = status,
                                           !.message = ConcArrivals[t].content,
                                           !.pc = "admin_check"]]
          /\ probe' = [probe EXCEPT !.left = @ \ Writable(ConcArrivals[t])]
          /\ UNCHANGED <<group_members, group_settings, now, twin, timers>>

\* handle_member_update while handlers are suspended
LeaveMemberUpdate(chat, u, status) ==
    /\ group_members' = StepMemberUpdate(group_members, chat, u, status)
    /\ probe' = [probe EXCEPT !.left = IF status \in {"kicked", "left"}
                                       THEN @ \cup {u} ELSE @ \ {u}]
    /\ UNCHANGED <<group_settings, now, tasks, twin, timers>>

NextLeave ==
    \/ \E t \in ConcSlots : LeaveMessage(t)
    \/ \E t \in ConcSlots : AdminCheck(t)
    \/ \E t \in ConcSlots : AdminUpsert(t)
    \/ \E t \in ConcSlots : UpsertSender(t)
    \/ \E t \in ConcSlots : GetSettings(t)
    \/ \E t \in ConcSlots : MentionDb(t)
    \/ \E t \in ConcSlots : VLookup(t)
    \/ \E t \in ConcSlots : VLookupUpsert(t)
    \/ \E t \in ConcSlots : VAdmins(t)
    \/ \E t \in ConcSlots : VAdminUpsert(t)
    \/ \E t \in ConcSlots : VCount(t)
    \/ \E t \in ConcSlots : AfterVerify(t)
    \/ \E t \in ConcSlots : DeleteMessage(t)
    \/ \E t \in ConcSlots : AnswerWarning(t)
    \/ \E t \in ConcSlots : Return(t)
    \/ Tick
    \/ \E w \in WarningIds : SleepReturns(w)
    \/ \E w \in WarningIds : WarningDelete(w)
    \/ \E u \in {"u1", "u3"}, status \in {"member", "left", "kicked"} :
          LeaveMemberUpdate("g1", u, status)

LeaveSpec == LeaveInit /\ [][NextLeave]_vars

\* the user whose record the step of task t upserts, None when the step is no upsert
UpsertOf(t) ==
    IF tasks'[t].raised # tasks[t].raised THEN None
    ELSE IF tasks[t].pc \in {"admin_upsert", "upsert"} /\ tasks'[t].pc # tasks[t].pc
         THEN tasks[t].sender
    ELSE IF tasks[t].pc = "v_upsert" /\ tasks'[t].pc # "v_upsert" THEN tasks[t].v_member.user
    ELSE IF tasks[t].pc = "v_admin_upsert" /\ tasks'[t].pc # "v_admin_upsert" THEN tasks[t].v_admin
    ELSE None

\* the table after an upsert for (chat, u) committed at the time now: the one row
\* of the key carries the data passed, the flag passed and the time of this
\* upsert, whatever was stored and whoever else is in flight; a row that was
\* there differs from the new one by the time at most; nothing else changed
Upserted(chat, u) ==
    /\ <<chat, u>> \in DOMAIN group_members'
    /\ group_members'[<<chat, u>>] =
          MemberRow(username_of[u], first_name_of[u], last_name_of[u], TRUE, now)
    /\ <<chat, u>> \in DOMAIN group_members
          => [group_members'[<<chat, u>>] EXCEPT !.updated_at = group_members[<<chat, u>>].updated_at]
             = group_members[<<chat, u>>]
    /\ DOMAIN group_members' = DOMAIN group_members \cup {<<chat, u>>}
    /\ \A k \in DOMAIN group_members \ {<<chat, u>>} : group_members'[k] = group_members[k]

C20_LeftMemberForgotten ==
    [][\A chat \in Chats, u \in UserIds :
          (\E st \in {"left", "kicked"} :
              handle_member_update(chat, u, st) \/ ConcMemberUpdate(chat, u, st))
          => /\ <<chat, u>> \notin DOMAIN group_members'
             /\ is_user_in_group(group_members', chat, username_of[u])
                   => \E k \in DOMAIN group_members' :
                         /\ k[1] = chat /\ k[2] # u
                         /\ group_members'[k].username # None
                         /\ Lower(group_members'[k].username) = Lower(username_of[u])
                         /\ group_members'[k].is_verified]_vars

\* Alice's handler is past the upsert of her record, the record is gone, and
\* Evan's record is still there
C20_Witness ==
    /\ tasks["t1"].sender = "u1" /\ tasks["t1"].pc \in {"settings", "done"}
    /\ <<"g1", "u1">> \notin DOMAIN group_members
    /\ <<"g1", "u3">> \in DOMAIN group_members
    /\ ~is_user_in_group(group_members, "g1", "Alice")

(***************************************************************************)
(* AdSpec: the two advertisement scorers applied to a message, first       *)
(* is_potential_ad, then is_potential_ad_debug.  The messages are texts    *)
(* put together from up to MaxSegments segments, each carrying one signal  *)
(* or none, and texts at the limits of the signals.                        *)
(***************************************************************************)
MaxSegments == 3

Segments ==
    {"buy now", "act now", "sale", "deal", "cheap", "+998 90 123 45 67",
     "hello to all our friends", "GREAT NEWS FOR EVERYBODY TODAY"}

SegmentTexts ==
    {Join(" ", q) : q \in UNION {[1..n -> Segments] : n \in 1..MaxSegments}}

RECURSIVE Times(_, _)
\* Python s * n
Times(str, n) == IF n = 0 THEN "" ELSE str \o Times(str, n - 1)

LimitTexts ==
    {"# bitcoin forex mlm", "i bitcoin forex mlm", "   buy now act now      ",
     "buy now " \o Times(BoldCap, 31), Times(BoldCap, 35),
     "BUY NOW GREAT NEWS FOR EVERYBODY", "1234", "special offer and free money for you",
     "sale deal cheap hello to all our friends",
     Times(EmojiCh, 20) \o " come and see us again tomorrow ok",
     Times(EmojiCh, 20) \o " buy now and see us again tomorrow",
     Times("see you tomorrow morning ", 5),
     Times("see you tomorrow morning ", 5) \o "call 998901234567",
     Times("see you tomorrow morning ", 5) \o "buy now",
     Times("see you tomorrow morning ", 5) \o "buy now 998901234567"}

AdMessages ==
    {Content(t, None, <<>>, <<>>) : t \in SegmentTexts \cup LimitTexts}
    \cup {Content(None, "buy now act now and get a deal", <<>>, <<>>),
          Content("", "sale and deal this week only", <<>>, <<>>),
          Content(None, None, <<>>, <<>>)}

AdInit ==
    /\ group_members = EmptyTable
    /\ group_settings = EmptyTable
    /\ now = 0
    /\ tasks = [t \in Slots |-> IdleTask]
    /\ twin = NoTwin
    /\ timers = [w \in WarningIds |-> FreeTimer]
    /\ probe \in {[stage |-> "message", message |-> m] : m \in AdMessages}

\* MessageAnalyzer.is_potential_ad(message); ad_score is the local variable of
\* that name at the return
ScorePlain ==
    /\ probe.stage = "message"
    /\ probe' = [stage |-> "is_potential_ad", message |-> probe.message,
                 is_ad |-> is_potential_ad(probe.message),
                 ad_score |-> ad_score(probe.message)]
    /\ UNCHANGED <<group_members, group_settings, now, tasks, twin, timers>>

\* MessageAnalyzer.is_potential_ad_debug(message)
ScoreDebug ==
    /\ probe.stage = "is_potential_ad"
    /\ probe' = [stage |-> "is_potential_ad_debug", message |-> probe.message,
                 is_ad |-> probe.is_ad, ad_score |-> probe.ad_score,
                 debug |-> is_potential_ad_debug(probe.message)]
    /\ UNCHANGED <<group_members, group_settings, now, tasks, twin, timers>>

NextAd == ScorePlain \/ ScoreDebug

AdSpec == AdInit /\ [][NextAd]_vars

(***************************************************************************)
(* The handle validator on its own: a candidate is drawn, then             *)
(* is_valid_telegram_username is applied to it.                            *)
(***************************************************************************)
HandlePrefixes == {"", "@", "@@"}
HandleFirsts == {"a", "Z", "7", "_", IntlCh}
HandleMiddles ==
    {"", "bc", "bcd", "b_d", "b__", "_2_", "b-d", "b d", Times("x", 30), Times("x", 31)}
HandleLasts == {"z", "9", "_", "!", IntlCh}

\* what the validator is called with: None, the empty text and composed candidates
\* of 2, 4, 5, 32 and 33 characters after the prefix
Candidates ==
    {None, "", "@", "john_doe1", "@john_doe1"}
    \cup {p \o f \o m \o l : p \in HandlePrefixes, f \in HandleFirsts,
                              m \in HandleMiddles, l \in HandleLasts}

ValidatorInit ==
    /\ group_members = EmptyTable
    /\ group_settings = EmptyTable
    /\ now = 0
    /\ tasks = [t \in Slots |-> IdleTask]
    /\ twin = NoTwin
    /\ timers = [w \in WarningIds |-> FreeTimer]
    /\ probe \in {[stage |-> "username", username |-> c] : c \in Candidates}

\* self.is_valid_telegram_username(username)
Validate ==
    /\ probe.stage = "username"
    /\ probe' = [stage |-> "is_valid_telegram_username", username |-> probe.username,
                 valid |-> is_valid_telegram_username(probe.username)]
    /\ UNCHANGED <<group_members, group_settings, now, tasks, twin, timers>>

NextValidator == Validate

ValidatorSpec == ValidatorInit /\ [][NextValidator]_vars

(***************************************************************************)
(* The mention extractor on its own: a message is drawn, then              *)
(* extract_mentions is applied to it.                                      *)
(***************************************************************************)
MaxWords == 2

MentionWords ==
    {"@Alice", "@alice", "@abc", "@ab", "@a__b1", "@john_doe_", "@John_Doe", "hello",
     "@7up_fan", "mail@evan_k.uz", "@" \o Times("x", 33)}

MentionTexts ==
    {Join(" ", q) : q \in UNION {[1..n -> MentionWords] : n \in 1..MaxWords}}

\* texts without entities, and messages whose mentions the platform has marked
MentionMessages ==
    {Content(t, None, <<>>, <<>>) : t \in MentionTexts}
    \cup {Content("thanks @Alice and @alice", None,
                  <<Entity("mention", 7, 6), Entity("mention", 18, 6)>>, <<>>),
          Content(None, "photo for @John_Doe", <<>>, <<Entity("mention", 10, 9)>>),
          Content("see @ab and @abc", None,
                  <<Entity("mention", 4, 3), Entity("mention", 12, 4)>>, <<>>),
          Content("bold @Alice", None, <<Entity("bold", 0, 4)>>, <<>>),
          Content(None, None, <<>>, <<>>)}

MentionInit ==
    /\ group_members = EmptyTable
    /\ group_settings = EmptyTable
    /\ now = 0
    /\ tasks = [t \in Slots |-> IdleTask]
    /\ twin = NoTwin
    /\ timers = [w \in WarningIds |-> FreeTimer]
    /\ probe \in {[stage |-> "message", message |-> m] : m \in MentionMessages}

\* MessageAnalyzer.extract_mentions(message)
Extract ==
    /\ probe.stage = "message"
    /\ probe' = [stage |-> "extract_mentions", message |-> probe.message,
                 mentions |-> extract_mentions(probe.message)]
    /\ UNCHANGED <<group_members, group_settings, now, tasks, twin, timers>>

NextMentions == Extract

MentionSpec == MentionInit /\ [][NextMentions]_vars

(***************************************************************************)
(* main.py: the clean-up of old unverified records.  The database file     *)
(* outlives the process, so the tables found at start may hold rows of any *)
(* age, verified or not (is_verified defaults to FALSE in the schema).     *)
(* The clock and updated_at count days here.                               *)
(***************************************************************************)
RetentionDays == 7
MaxAge == 1
MaxDay == RetentionDays + MaxAge + 1

CleanupGroups == {"g1", "g2"}
CleanupUsers == {"u1", "u2"}

\* the group_members tables with rows written on the days 0..MaxAge
StoredTables ==
    LET keys == {<<g, u>> : g \in CleanupGroups, u \in CleanupUsers}
        cells == [keys -> BOOLEAN \X BOOLEAN \X (0..MaxAge)]
    IN  {[k \in {q \in keys : c[q][1]} |->
             MemberRow(username_of[k[2]], first_name_of[k[2]], last_name_of[k[2]],
                       c[k][2], c[k][3])] : c \in cells}

CleanupInit ==
    /\ group_members \in StoredTables
    /\ group_settings \in {[g \in G |-> SettingsRow(TRUE, TRUE, TRUE)] :
                              G \in {{"g1"}, CleanupGroups}}
    /\ now = RetentionDays
    /\ tasks = [t \in Slots |-> IdleTask]
    /\ twin = NoTwin
    /\ timers = [w \in WarningIds |-> FreeTimer]
    /\ probe = [stage |-> "stored"]

\* a day goes by with the bot running and nothing written
DayPasses ==
    /\ probe.stage = "stored"
    /\ now < MaxDay
    /\ now' = now + 1
    /\ UNCHANGED <<probe, group_members, group_settings, tasks, twin, timers>>

\* TelegramBot._cleanup_group_data(group_id): its call of cleanup_unverified_users
cleanup_group_data(group_id) ==
    /\ probe.stage = "stored"
    /\ group_members' = cleanup_unverified_users(group_members, group_id, RetentionDays)
    /\ probe' = [stage |-> "cleaned", groups |-> {group_id}, before |-> group_members]
    /\ UNCHANGED <<group_settings, now, tasks, twin, timers>>

RECURSIVE CleanupAll(_, _)
\* for group in groups: cleanup_unverified_users(group['id'], days_old=7)
CleanupAll(gm, groups) ==
    IF groups = {} THEN gm
    ELSE LET group == CHOOSE g \in groups : TRUE
         IN  CleanupAll(cleanup_unverified_users(gm, group, RetentionDays), groups \ {group})

\* one round of TelegramBot.periodic_cleanup over get_all_groups()
periodic_cleanup ==
    /\ probe.stage = "stored"
    /\ group_members' = CleanupAll(group_members, DOMAIN group_settings)
    /\ probe' = [stage |-> "cleaned", groups |-> DOMAIN group_settings,
                 before |-> group_members]
    /\ UNCHANGED <<group_settings, now, tasks, twin, timers>>

NextCleanup ==
    \/ DayPasses
    \/ \E group_id \in CleanupGroups : cleanup_group_data(group_id)
    \/ periodic_cleanup

CleanupSpec == CleanupInit /\ [][NextCleanup]_vars

(***************************************************************************)
(* main.py, handlers.py: the registration of the handlers and the way an   *)
(* update finds its handler.  The dispatcher is the root router: an event  *)
(* is offered to its own handlers in registration order, then to those of  *)
(* the included router; the first handler whose filters pass is called and *)
(* the search ends there.  The table join_leave_settings of main.py is     *)
(* kept in probe.join_leave_settings.                                      *)
(***************************************************************************)
Handler(name, event, filter) == [name |-> name, event |-> event, filter |-> filter]

\* TelegramBot.register_join_leave_handlers, then the broadcast handler of
\* TelegramBot.initialize: the handlers registered on self.dp
DispatcherHandlers ==
    <<Handler("handle_new_member", "message", "none"),
      Handler("handle_left_member", "message", "none"),
      Handler("handle_service_message", "message", "none"),
      Handler("admin_handlers.handle_broadcast_message", "message", "broadcast_waiting")>>

\* BotHandlers._setup_handlers: the message and edited_message handlers
\* registered on self.router
RouterHandlers ==
    <<Handler("start_command", "message", "private /start"),
      Handler("admin_command", "message", "private /admin"),
      Handler("debug_group_command", "message", "private /debug_group"),
      Handler("handle_broadcast_message", "message", "private"),
      Handler("handle_group_message", "message", "group"),
      Handler("handle_edited_group_message", "edited_message", "group")>>

GroupTypes == {"group", "supergroup"}
ServiceBodies == {"new_chat_members", "left_chat_member", "pinned_message"}

\* the updates that arrive: what a user posts or edits (a text, a command), in
\* private or in a group, and the service messages of a group; waiting says
\* that the author is the superadmin with a broadcast pending
Updates ==
    {[event |-> e, chat_type |-> ct, chat |-> "g1", body |-> b, waiting |-> w] :
        e \in {"message", "edited_message"}, ct \in {"private"} \cup GroupTypes,
        b \in {"text", "/start"}, w \in BOOLEAN}
    \cup {[event |-> "message", chat_type |-> ct, chat |-> "g1", body |-> b, waiting |-> FALSE] :
             ct \in GroupTypes, b \in ServiceBodies}

\* the filters given at registration
FilterPasses(filter, update) ==
    CASE filter = "none" -> TRUE
      [] filter = "broadcast_waiting" -> update.waiting /\ update.body \notin ServiceBodies
      [] filter = "private" -> update.chat_type = "private"
      [] filter = "group" -> update.chat_type \in GroupTypes
      [] filter = "private /start" -> update.body = "/start" /\ update.chat_type = "private"
      [] OTHER -> FALSE

Unhandled == "UNHANDLED"

\* the observer of one router: the first handler of the event whose filter passes
Trigger(handlers, update) ==
    LET passing == {k \in 1..Len(handlers) : /\ handlers[k].event = update.event
                                             /\ FilterPasses(handlers[k].filter, update)}
    IN  IF passing = {} THEN Unhandled
        ELSE handlers[CHOOSE k \in passing : \A l \in passing : k <= l].name

\* Dispatcher.feed_update: the dispatcher's own handlers, then the router's
feed_update(update) ==
    IF Trigger(DispatcherHandlers, update) # Unhandled
    THEN Trigger(DispatcherHandlers, update)
    ELSE Trigger(RouterHandlers, update)

\* TelegramBot.is_join_leave_enabled: the flag read, and the table after the
\* call (a missing row is inserted as enabled)
is_join_leave_enabled(jls, group_id) ==
    IF group_id \in DOMAIN jls
    THEN [enabled |-> jls[group_id], jls |-> jls]
    ELSE [enabled |-> TRUE, jls |-> Put(jls, group_id, TRUE)]

\* what the handler found does with the update: the functions it calls,
\* whether message.delete() is called, the table join_leave_settings after it
HandlerBody(name, update, jls) ==
    LET asked == is_join_leave_enabled(jls, update.chat)
        skip == [calls |-> <<>>, delete_called |-> FALSE, jls |-> jls]
        removal(fn) == [calls |-> <<fn, "is_join_leave_enabled">>,
                        delete_called |-> asked.enabled, jls |-> asked.jls]
    IN  CASE name = "handle_new_member" ->
                IF update.body = "new_chat_members" THEN removal("handle_join_message") ELSE skip
          [] name = "handle_left_member" ->
                IF update.body = "left_chat_member" THEN removal("handle_leave_message") ELSE skip
          [] name = "handle_group_message" ->
                [skip EXCEPT !.calls = <<"_process_group_message">>]
          [] name = "handle_edited_group_message" ->
                [skip EXCEPT !.calls = <<"_process_group_message">>]
          [] OTHER -> [skip EXCEPT !.calls = <<name>>]

DispatchInit ==
    /\ group_members = EmptyTable
    /\ group_settings = EmptyTable
    /\ now = 0
    /\ tasks = [t \in Slots |-> IdleTask]
    /\ twin = NoTwin
    /\ timers = [w \in WarningIds |-> FreeTimer]
    /\ probe = [stage |-> "polling", join_leave_settings |-> EmptyTable]

\* an update is fetched
Arrive(update) ==
    /\ probe.stage \in {"polling", "handled"}
    /\ probe' = [stage |-> "update", update |-> update,
                 join_leave_settings |-> probe.join_leave_settings]
    /\ UNCHANGED <<group_members, group_settings, now, tasks, twin, timers>>

\* the dispatcher finds the handler
FeedUpdate ==
    /\ probe.stage = "update"
    /\ probe' = [stage |-> "routed", update |-> probe.update,
                 handler |-> feed_update(probe.update),
                 join_leave_settings |-> probe.join_leave_settings]
    /\ UNCHANGED <<group_members, group_settings, now, tasks, twin, timers>>

\* the handler found runs to its end
HandlerRuns ==
    /\ probe.stage = "routed"
    /\ LET body == HandlerBody(probe.handler, probe.update, probe.join_leave_settings)
       IN  probe' = [stage |-> "handled", update |-> probe.update, handler |-> probe.handler,
                     calls |-> body.calls, delete_called |-> body.delete_called,
                     flag |-> get_group_settings(group_settings, probe.update.chat).delete_join_leave,
                     join_leave_settings |-> body.jls]
    /\ UNCHANGED <<group_members, group_settings, now, tasks, twin, timers>>

NextDispatch ==
    \/ \E update \in Updates : Arrive(update)
    \/ FeedUpdate
    \/ HandlerRuns
    \/ bot_added_to_group("g1", "member", NoReply)
    \/ handle_toggle_setting("g1", "join")

DispatchSpec == DispatchInit /\ [][NextDispatch]_vars

(***************************************************************************)
(* The registration of groups on its own: the bot is added to a group, an  *)
(* administrator toggles settings or removes the group, the bot is added   *)
(* again.  probe counts the registrations and keeps the settings table as  *)
(* it was before the last one.                                             *)
(***************************************************************************)
MaxRegistrations == 3

RegistrationInit ==
    /\ group_members = EmptyTable
    /\ group_settings = EmptyTable
    /\ now = 0
    /\ tasks = [t \in Slots |-> IdleTask]
    /\ twin = NoTwin
    /\ timers = [w \in WarningIds |-> FreeTimer]
    /\ probe = [stage |-> "registrations", count |-> 0, group_id |-> None,
                before |-> EmptyTable]

\* BotHandlers.bot_added_to_group, counted
RegisterGroup(chat, status, reply) ==
    /\ probe.count < MaxRegistrations
    /\ group_settings' = add_group(group_settings, chat)
    /\ group_members' =
          IF status = "administrator" /\ reply.kind = "list"
          THEN populate_group_members(group_members, chat, reply.list)
          ELSE group_members
    /\ probe' = [probe EXCEPT !.count = @ + 1, !.group_id = chat, !.before = group_settings]
    /\ UNCHANGED <<now, tasks, twin, timers>>

NextRegistration ==
    \/ \E chat \in CleanupGroups :
          \/ RegisterGroup(chat, "member", NoReply)
          \/ RegisterGroup(chat, "administrator", ListReply(<<"u1">>))
    \/ \E chat \in CleanupGroups, setting_type \in {"links", "ads", "join"} :
          handle_toggle_setting(chat, setting_type)
    \/ \E chat \in CleanupGroups : remove_group(chat)

RegistrationSpec == RegistrationInit /\ [][NextRegistration]_vars

\* the text handed to the scorers and what the claims count in it
RawText == TextOrCaption(probe.message)
Scored == probe.stage \in {"is_potential_ad", "is_potential_ad_debug"}
StrongFound == KeywordCount(strong_ad_keywords, Lower(RawText))
MediumFound == KeywordCount(medium_ad_keywords, Lower(RawText))

\* C22 as stated: a text shorter than 20 characters is never an advertisement
\* and scores 0.
C22_ShortTextNeverAd ==
    (Scored /\ Len(RawText) < AdMinLen) => (~probe.is_ad /\ probe.ad_score = 0)

\* C23 as stated: in a text of at least 20 characters every distinct strong
\* phrase adds 2, two of them make an advertisement, and the verdict is true
\* exactly when the score is at least 3.
C23_Original ==
    (Scored /\ Len(RawText) >= AdMinLen)
    => /\ probe.ad_score >= StrongWeight * StrongFound
       /\ StrongFound >= 2 => (probe.ad_score >= 4 /\ probe.is_ad)
       /\ probe.is_ad <=> probe.ad_score >= AdThreshold

\* C23: in a text whose lowercased and stripped form has at least 20
\* characters every distinct strong phrase adds 2 (the other five signals add
\* at most 1 each), two of them make an advertisement, and for every text the
\* verdict is true exactly when the score is at least 3.
C23_StrongPhrasesAddTwo ==
    Scored
    => /\ Len(AdText(probe.message)) >= AdMinLen
          => /\ probe.ad_score >= StrongWeight * StrongFound
             /\ probe.ad_score <= StrongWeight * StrongFound + 5
             /\ StrongFound >= 2 => (probe.ad_score >= 4 /\ probe.is_ad)
       /\ probe.is_ad <=> probe.ad_score >= AdThreshold

\* two strong phrases and nothing else, classified with the score 4
C23_Witness ==
    /\ Scored
    /\ RawText = "buy now act now buy now"
    /\ probe.ad_score = 4 /\ probe.is_ad

\* no digit, no non-ASCII character, at most 100 characters: neither the phone,
\* the emoji, the capitalization nor the repetition signal can contribute
KeywordsOnly ==
    /\ \A i \in 1..Len(RawText) : Ch(RawText, i) \notin Digits \cup NonAscii
    /\ Len(RawText) <= RepeatMinLen

\* C24: in a text scored on its keywords alone the medium terms add 1 to the
\* score of the strong phrases when two or more distinct terms occur and
\* nothing otherwise; a single medium term alone scores 0.
C24_MediumTermsAddOne ==
    (Scored /\ KeywordsOnly /\ Len(AdText(probe.message)) >= AdMinLen)
    => probe.ad_score = StrongWeight * StrongFound + (IF MediumFound >= 2 THEN 1 ELSE 0)

\* three medium terms and no other signal: the score is 1
C24_Witness ==
    /\ Scored /\ KeywordsOnly
    /\ Len(AdText(probe.message)) >= AdMinLen
    /\ StrongFound = 0 /\ MediumFound = 3
    /\ probe.ad_score = 1

\* more than 30 characters, more than 10 letters, more than 80% of them capitals
CapitalsText ==
    /\ Len(RawText) > CapsMinLen
    /\ CountIn(RawText, Alpha) > CapsMinLetters
    /\ 10 * CountIn(RawText, Upper) > 8 * CountIn(RawText, Alpha)

\* C25 as stated: a text written in capitals gets 1 for its capitalization, so
\* that with one strong phrase and no other signal it scores 3 and is an
\* advertisement.
C25_CapitalsAddOne ==
    (Scored /\ CapitalsText /\ Len(AdText(probe.message)) >= AdMinLen)
    => /\ probe.ad_score >= 1
       /\ (StrongFound = 1 /\ MediumFound < 2 /\ KeywordsOnly)
             => (probe.ad_score = 3 /\ probe.is_ad)

\* what the signals other than the phone number contribute, the repetition
\* included or not
OtherSignals(text, with_repetition) ==
    StrongScore(text) + MediumScore(text) + EmojiScore(text) + CapsScore(text)
    + (IF with_repetition THEN RepeatScore(text) ELSE 0)

\* C26 as stated: a phone number adds 1 exactly when one of the other five
\* signals, the repetition among them, contributes.
C26_Original ==
    (Scored /\ Len(AdText(probe.message)) >= AdMinLen)
    => LET text == AdText(probe.message)
       IN  probe.ad_score = OtherSignals(text, TRUE)
                            + (IF has_phone(text) /\ OtherSignals(text, TRUE) > 0 THEN 1 ELSE 0)

\* C26: a phone number adds 1 exactly when one of the four signals evaluated
\* before it (strong phrases, medium terms, emoji density, capitalization)
\* contributes; the repetition, evaluated after it, does not count for it, and
\* a phone number alone scores 0.
C26_PhoneNeedsEarlierSignal ==
    (Scored /\ Len(AdText(probe.message)) >= AdMinLen)
    => LET text == AdText(probe.message)
       IN  /\ probe.ad_score = OtherSignals(text, TRUE)
                               + (IF has_phone(text) /\ OtherSignals(text, FALSE) > 0
                                  THEN 1 ELSE 0)
           /\ (has_phone(text) /\ OtherSignals(text, TRUE) = 0) => probe.ad_score = 0

\* a phone number in a text whose only other signal is the repetition: the
\* score is that of the repetition alone
C26_Witness ==
    /\ Scored
    /\ has_phone(AdText(probe.message))
    /\ OtherSignals(AdText(probe.message), FALSE) = 0
    /\ RepeatScore(AdText(probe.message)) = 1
    /\ probe.ad_score = 1

RECURSIVE ReasonWeights(_)
\* the sum of what the entries of debug_reasons stand for
ReasonWeights(debug_reasons) ==
    IF Len(debug_reasons) = 0 THEN 0
    ELSE (IF Head(debug_reasons).kind = "Strong ad keywords"
          THEN StrongWeight * Len(Head(debug_reasons).found) ELSE 1)
         + ReasonWeights(Tail(debug_reasons))

\* C27: is_potential_ad_debug returns the verdict of is_potential_ad, the
\* verdict is true exactly when the returned score is at least 3, and the
\* score is the sum of the weights of the reasons listed.
C27_DebugAgrees ==
    probe.stage = "is_potential_ad_debug"
    => /\ probe.debug.is_ad = probe.is_ad
       /\ probe.debug.is_ad <=> probe.debug.ad_score >= AdThreshold
       /\ probe.debug.ad_score = ReasonWeights(probe.debug.debug_reasons)

\* both scorers classify a text on a strong phrase, a phone number and a
\* repeated phrase
C27_Witness ==
    /\ probe.stage = "is_potential_ad_debug"
    /\ probe.is_ad /\ probe.debug.is_ad
    /\ Len(probe.debug.debug_reasons) = 3
    /\ probe.debug.debug_reasons[3].kind = "Repetitive pattern"

\* the candidate without its leading @ signs
Unprefixed(candidate) ==
    LET kept == {i \in 1..Len(candidate) : \E j \in 1..i : Ch(candidate, j) # "@"}
    IN  SubSeq(candidate, Len(candidate) - Cardinality(kept) + 1, Len(candidate))

\* the five rules of the validator, stated on the candidate without its prefix
HandleRules(handle) ==
    /\ Len(handle) >= 5 /\ Len(handle) <= 32
    /\ Ch(handle, 1) \in Alpha
    /\ Ch(handle, Len(handle)) \in Alnum
    /\ \A i \in 1..Len(handle) : Ch(handle, i) \in Alnum \/ Ch(handle, i) = "_"
    /\ \A i \in 1..(Len(handle) - 1) : ~(Ch(handle, i) = "_" /\ Ch(handle, i + 1) = "_")

LowercaseOnce(mentions) ==
    /\ \A k \in 1..Len(mentions) :
          \A i \in 1..Len(mentions[k]) : Ch(mentions[k], i) \notin Upper
    /\ \A k, l \in 1..Len(mentions) : mentions[k] = mentions[l] => k = l

Expired(k) ==
    /\ ~probe.before[k].is_verified
    /\ now - probe.before[k].updated_at > 7

\* C21: the clean-up of a group removes exactly the records of that group that
\* are unverified and were last updated more than 7 days ago; verified
\* records, younger records and records of other groups stay as they were.
C21_CleanupRemovesExactly ==
    probe.stage = "cleaned"
    => /\ DOMAIN group_members =
             {k \in DOMAIN probe.before : ~(k[1] \in probe.groups /\ Expired(k))}
       /\ \A k \in DOMAIN group_members : group_members[k] = probe.before[k]

\* the clean-up of g1 has removed an expired record and left beside it a
\* verified record of the same age and an expired record of g2
C21_Witness ==
    /\ probe.stage = "cleaned"
    /\ probe.groups = {"g1"}
    /\ <<"g1", "u1">> \in DOMAIN probe.before \ DOMAIN group_members
    /\ <<"g1", "u2">> \in DOMAIN group_members
    /\ group_members[<<"g1", "u2">>].is_verified
    /\ group_members[<<"g1", "u2">>].updated_at = probe.before[<<"g1", "u1">>].updated_at
    /\ <<"g2", "u1">> \in DOMAIN group_members
    /\ ~group_members[<<"g2", "u1">>].is_verified
    /\ now - group_members[<<"g2", "u1">>].updated_at > 7

\* a call the verifier makes: the lookup of a handle, the administrator list,
\* the member count
VerifierCall(call) ==
    \/ call.username # None
    \/ call.op \in {"get_chat_administrators", "get_chat_member_count"}

\* the message in process carries a link and the group filters links
LinkWillFire(task) ==
    /\ task.pc # "idle"
    /\ Analysed[task.message].has_links
    /\ get_group_settings(group_settings, task.chat).delete_links

\* the sender's upsert applied to the store
SenderUpsert(task) ==
    update_group_member(group_members, task.chat, task.sender, username_of[task.sender],
                        first_name_of[task.sender], last_name_of[task.sender], TRUE)

\* C30: a call of the verifier is made only for a mention of the message that
\* has no verified record in the store, after the link rule has been passed
\* without firing; in the processing of a message the link rule decides, no
\* such call is made, no mention is checked, and the store changes by the
\* sender's upsert alone.
C30_VerifierOnlyWhenNeeded ==
    [][\A t \in DOMAIN tasks :
          LET old == tasks[t]
              new == tasks'[t]
              made == SubSeq(new.calls, Len(old.calls) + 1, Len(new.calls))
          IN  /\ \A k \in 1..Len(made) :
                    VerifierCall(made[k])
                    => /\ made[k].username \in SeqSet(old.mentions)
                       /\ ~VerifiedRecord(group_members, old.chat, made[k].username)
                       /\ Evaluated(old) /\ ~LinkFires(old)
              /\ LinkWillFire(old)
                    => /\ \/ group_members' = group_members
                          \/ /\ old.sender # None
                             /\ group_members' = SenderUpsert(old)
                       /\ \A k \in 1..Len(new.calls) : ~VerifierCall(new.calls[k])
                       /\ new.checked = <<>>
              /\ (old.pc # "idle" /\ new.reason = ReasonLink)
                    => group_members' = group_members]_vars

\* a message with a link and a mention of an unknown handle was deleted for the
\* link after the one call that asks for the sender's status, the sender recorded
C30_Witness ==
    \E t \in DOMAIN tasks :
        /\ tasks[t].pc = "done" /\ tasks[t].deleted
        /\ tasks[t].reason = ReasonLink
        /\ Analysed[tasks[t].message].mentions = <<"ghost">>
        /\ ~VerifiedRecord(group_members, tasks[t].chat, "ghost")
        /\ Ops(tasks[t].calls) = <<"get_chat_member">>
        /\ tasks[t].calls[1].username = None
        /\ tasks[t].checked = <<>>
        /\ SenderRecorded(group_members, tasks[t].chat, tasks[t].sender)

\* the update handled is a text posted by a user in a group
PostedInGroup ==
    /\ probe.stage = "handled"
    /\ probe.update.event = "message"
    /\ probe.update.chat_type \in GroupTypes
    /\ probe.update.body \notin ServiceBodies

\* C31 as stated: every message posted in a group by a user reaches
\* _process_group_message.
C31_GroupMessageReachesPipeline ==
    PostedInGroup => (\E k \in 1..Len(probe.calls) : probe.calls[k] = "_process_group_message")

\* C32 as stated: a join or leave service message of a group is deleted
\* exactly when the group's delete_join_leave setting, as get_group_settings
\* returns it when the message is handled, is on.
C32_JoinLeaveFollowsSetting ==
    (probe.stage = "handled" /\ probe.update.body \in {"new_chat_members", "left_chat_member"})
    => (probe.delete_called <=> probe.flag)

\* C33: a registration creates the settings record of a group that has none
\* with the three flags on, and leaves the record of a group that has one,
\* and every other record, as it was.
C33_RegistrationKeepsFlags ==
    [][probe'.count = probe.count + 1
       => /\ DOMAIN group_settings' = DOMAIN group_settings \cup {probe'.group_id}
          /\ \A g \in DOMAIN group_settings : group_settings'[g] = group_settings[g]
          /\ probe'.group_id \notin DOMAIN group_settings
                => /\ group_settings'[probe'.group_id].delete_links
                   /\ group_settings'[probe'.group_id].delete_ads
                   /\ group_settings'[probe'.group_id].delete_join_leave]_vars

\* g1 was registered again with its link filter toggled off, and the filter is
\* still off
C33_Witness ==
    /\ probe.stage = "registrations"
    /\ probe.count >= 2
    /\ probe.group_id = "g1"
    /\ "g1" \in DOMAIN probe.before
    /\ ~probe.before["g1"].delete_links
    /\ group_settings["g1"] = probe.before["g1"]

\* C34: every membership record has its verified flag set, so the clean-up
\* of unverified records of any group leaves the table as it is.
C34_AllRecordsVerified ==
    /\ \A k \in DOMAIN group_members : group_members[k].is_verified
    /\ \A g \in Chats :
          cleanup_unverified_users(group_members, g, RetentionDays) = group_members

\* the store holds the record of a sender and the record of another user
\* written by the verifier after the lookup of a handle
C34_Witness ==
    \E t \in DOMAIN tasks :
        /\ tasks[t].pc = "v_done" /\ tasks[t].v_result
        /\ tasks[t].v_member.kind = "member"
        /\ tasks[t].v_member.user # tasks[t].sender
        /\ <<tasks[t].chat, tasks[t].v_member.user>> \in DOMAIN group_members
        /\ <<tasks[t].chat, tasks[t].sender>> \in DOMAIN group_members

\* a mention of the message that fails the validator, had no verified record
\* and got false from the verifier
RejectedUnvalidated(task) ==
    \E k \in 1..Len(task.checked) :
        /\ ~is_valid_telegram_username(task.checked[k].mention)
        /\ ~task.checked[k].is_in_group
        /\ task.checked[k].asked
        /\ ~task.checked[k].user_exists_in_chat

\* C35: every handle in the invalid-mentions list passes the validator; a
\* deletion that is neither for a link nor for an advertisement has a
\* non-empty list behind it, and the handles its reason names pass the
\* validator, also when a mention failing the validator had no verified
\* record and got false from the verifier.
C35_InvalidMentionsValidated ==
    \A t \in DOMAIN tasks :
        /\ \A k \in 1..Len(tasks[t].invalid_mentions) :
              is_valid_telegram_username(tasks[t].invalid_mentions[k])
        /\ (/\ Decided(tasks[t]) /\ tasks[t].should_delete
            /\ tasks[t].reason \notin {ReasonLink, ReasonAd})
           => /\ Len(tasks[t].invalid_mentions) > 0
              /\ \A h \in Named(tasks[t]) : is_valid_telegram_username(h)
        /\ (Decided(tasks[t]) /\ RejectedUnvalidated(tasks[t])
                /\ tasks[t].invalid_mentions = <<>>)
           => ~tasks[t].should_delete

\* a message whose three-character mention had no record and got false from
\* the verifier was processed to the end and kept
C35_Witness ==
    \E t \in DOMAIN tasks :
        /\ tasks[t].pc = "done"
        /\ RejectedUnvalidated(tasks[t])
        /\ Len(tasks[t].checked) = Len(Analysed[tasks[t].message].mentions)
        /\ ~tasks[t].should_delete /\ ~tasks[t].deleted

\* C36: when the upsert of the sender after the administrator check, or the
\* read of the group settings, raises, the handler ends in that step: the
\* settings were never read, the message is not marked, not deleted, no
\* warning is posted or scheduled, no mention was looked up in the store and
\* no platform call was made for a handle.
C36_StoreFailureSkipsMessage ==
    [][\A t \in DOMAIN tasks :
          (tasks[t].pc \in {"upsert", "settings"} /\ StoreRaised(t))
          => /\ tasks'[t].pc = "done"
             /\ tasks'[t].settings = Unset
             /\ ~tasks'[t].should_delete /\ tasks'[t].reason = ""
             /\ ~tasks'[t].deleted
             /\ tasks'[t].warning = None
             /\ timers' = timers
             /\ tasks'[t].checked = <<>>
             /\ tasks'[t].calls = tasks[t].calls
             /\ \A k \in 1..Len(tasks'[t].calls) :
                   /\ tasks'[t].calls[k].username = None
                   /\ tasks'[t].calls[k].op = "get_chat_member"
             /\ group_members' = group_members]_vars

\* the read of the settings raised for a message with a link whose sender
\* was upserted: the handler ended and the message is still there
C36_Witness ==
    \E t \in DOMAIN tasks :
        /\ tasks[t].pc = "done"
        /\ tasks[t].raised = <<[op |-> "get_group_settings", error |-> "database is locked"]>>
        /\ Analysed[tasks[t].message].has_links
        /\ tasks[t].sender_status = "member"
        /\ <<tasks[t].chat, tasks[t].sender>> \in DOMAIN group_members
        /\ ~tasks[t].deleted /\ tasks[t].warning = None

\* the lookup by handle found a member whose status is kicked or left
InactiveFound(task) ==
    task.v_member.kind = "member" /\ task.v_member.status \in {"kicked", "left"}

\* C37: when the lookup by handle found a member with status kicked or left,
\* the step that receives the reply returns false from the verifier; the
\* lookup is the only call made for the handle (no administrator list, no
\* member count) and the store is as it was when the verifier was entered.
C37_InactiveMemberRejected ==
    /\ \A t \in DOMAIN tasks :
          (tasks[t].pc \in VerifierPcs \cup {"v_done"} /\ InactiveFound(tasks[t]))
          => /\ VerifierReturned(tasks[t])
             /\ ~tasks[t].v_result
             /\ Ops(VerifierCalls(tasks[t], tasks[t].username)) = <<"get_chat_member">>
             /\ tasks[t].v_admins = NoReply /\ tasks[t].v_count = NoReply
             /\ group_members = tasks[t].v_gm

\* the lookup of a handle that passes the validator found a user with status
\* left who has no record
C37_Witness ==
    \E t \in DOMAIN tasks :
        /\ VerifierReturned(tasks[t])
        /\ InactiveFound(tasks[t])
        /\ tasks[t].v_member.status = "left"
        /\ is_valid_telegram_username(tasks[t].username)
        /\ <<tasks[t].chat, tasks[t].v_member.user>> \notin DOMAIN group_members

\* C38: when the leave or kick of a user has been handled, no handler is in
\* flight any more, and since the leave the user neither rejoined nor had a
\* handler started that can write their record, the store holds no record of
\* the user in the group.
C38_LeaveOutlastsInFlight ==
    (probe.stage = "leaves" /\ \A t \in DOMAIN tasks : tasks[t].pc \in {"idle", "done"})
    => \A u \in probe.left : <<"g1", u>> \notin DOMAIN group_members

\* the handle of the sender as a mention is extracted, None without a handle
OwnHandle(task) ==
    IF task.sender = None \/ username_of[task.sender] = None THEN None
    ELSE Lower(username_of[task.sender])

\* C39: for a sender processed as a non-admin (the settings were read, after
\* the upsert) who mentions their own handle, the lookup of that handle in the
\* store succeeds: the handle is logged as found in the group, the verifier is
\* never entered and no platform call is made for it, and it is never in the
\* invalid-mentions list nor named in the reason.
C39_OwnHandleFoundInStore ==
    \A t \in DOMAIN tasks :
        (/\ Evaluated(tasks[t])
         /\ OwnHandle(tasks[t]) # None
         /\ Len(OwnHandle(tasks[t])) >= MentionMinLen
         /\ OwnHandle(tasks[t]) \in SeqSet(Analysed[tasks[t].message].mentions))
        => /\ OwnHandle(tasks[t]) \notin SeqSet(tasks[t].invalid_mentions)
           /\ VerifierCalls(tasks[t], OwnHandle(tasks[t])) = <<>>
           /\ tasks[t].username # OwnHandle(tasks[t])
           /\ \A k \in 1..Len(tasks[t].checked) :
                 tasks[t].checked[k].mention = OwnHandle(tasks[t])
                 => tasks[t].checked[k].is_in_group /\ ~tasks[t].checked[k].asked
           /\ OwnHandle(tasks[t]) \notin Named(tasks[t])

\* Evan, a member, sent a message mentioning @evan and a handle nobody has;
\* the other handle went to the verifier, his own was found in the store
C39_Witness ==
    \E t \in DOMAIN tasks :
        /\ tasks[t].pc = "done"
        /\ tasks[t].sender_status = "member"
        /\ Len(tasks[t].checked) = 2
        /\ tasks[t].checked[1].asked
        /\ tasks[t].checked[2].mention = OwnHandle(tasks[t])
        /\ tasks[t].checked[2].is_in_group
        /\ DOMAIN group_members = {<<tasks[t].chat, tasks[t].sender>>}

====
